---------------------------- MODULE Spec2Model ----------------------------
(***************************************************************************)
(* A model of the thales option backtester: the Black-Scholes pricer       *)
(* (models/black_scholes.py), the BlackScholesArbitrage strategy           *)
(* (strategies/black_scholes_arbitrage.py) and the BacktestEngine day loop *)
(* (backtest/engine.py).                                                   *)
(*                                                                         *)
(* Numbers are fixed point, because TLC has 32-bit integers only:          *)
(*   underlying price, strike      whole dollars                           *)
(*   option prices (mid, theory)   cents                                   *)
(*   volatility, rate, thresholds  basis points (1e-4)                     *)
(*   d1, d2                        1e-4                                    *)
(*   cumulative normal, discount   1e-6                                    *)
(*   time to expiry                calendar days (T = days / 365)          *)
(* The float not-a-number is the value NaN, which fails every comparison.  *)
(***************************************************************************)
EXTENDS Integers, Sequences, FiniteSets, TLC

\* float('nan') / pandas NaN: a missing or invalid number
NaN == -999999
\* an expiration string that pd.to_datetime cannot parse
BadDate == -888888
\* a column the frame does not have / a key the cache does not hold
Absent == -777777

IsNaN(x) == x = NaN

\* float comparisons: every comparison with NaN is false
Lt(a, b) == ~IsNaN(a) /\ ~IsNaN(b) /\ a < b
Gt(a, b) == ~IsNaN(a) /\ ~IsNaN(b) /\ a > b
Le(a, b) == ~IsNaN(a) /\ ~IsNaN(b) /\ a <= b
Ge(a, b) == ~IsNaN(a) /\ ~IsNaN(b) /\ a >= b

Max(a, b) == IF a >= b THEN a ELSE b
Min(a, b) == IF a <= b THEN a ELSE b
Abs(a) == IF a < 0 THEN 0 - a ELSE a

RECURSIVE SqrtBisect(_, _, _)
SqrtBisect(n, lo, hi) ==
  IF lo >= hi THEN lo
  ELSE LET m == (lo + hi + 1) \div 2
       IN IF m * m <= n THEN SqrtBisect(n, m, hi) ELSE SqrtBisect(n, lo, m - 1)

\* np.sqrt on a non-negative integer, rounded down
Isqrt(n) == SqrtBisect(n, 0, 46340)

\* a * b / 10^6 without leaving 32 bits (0 <= a <= 2*10^6, 0 <= b <= 10^6)
MulDiv6(a, b) ==
  ((a \div 1000) * b) \div 1000 + ((a % 1000) * b) \div 1000000

\* ln(n / d) in 1e-6 for n >= d > 0, by 2 atanh((n-d)/(n+d))
LnPos(n, d) ==
  LET z  == ((n - d) * 1000000) \div (n + d)
      z2 == ((z \div 100) * (z \div 100)) \div 100
      z3 == ((z \div 1000) * z2) \div 1000
      z5 == ((z3 \div 1000) * z2) \div 1000
      z7 == ((z5 \div 1000) * z2) \div 1000
  IN 2 * (z + z3 \div 3 + z5 \div 5 + z7 \div 7)

\* np.log(n / d) in 1e-6 (n, d > 0)
Ln6(n, d) == IF n >= d THEN LnPos(n, d) ELSE 0 - LnPos(d, n)

NormCdfTable ==
  << 500000, 503989, 507978, 511966, 515953, 519939, 523922, 527903, 531881, 535856,
     539828, 543795, 547758, 551717, 555670, 559618, 563559, 567495, 571424, 575345,
     579260, 583166, 587064, 590954, 594835, 598706, 602568, 606420, 610261, 614092,
     617911, 621720, 625516, 629300, 633072, 636831, 640576, 644309, 648027, 651732,
     655422, 659097, 662757, 666402, 670031, 673645, 677242, 680822, 684386, 687933,
     691462, 694974, 698468, 701944, 705401, 708840, 712260, 715661, 719043, 722405,
     725747, 729069, 732371, 735653, 738914, 742154, 745373, 748571, 751748, 754903,
     758036, 761148, 764238, 767305, 770350, 773373, 776373, 779350, 782305, 785236,
     788145, 791030, 793892, 796731, 799546, 802337, 805105, 807850, 810570, 813267,
     815940, 818589, 821214, 823814, 826391, 828944, 831472, 833977, 836457, 838913,
     841345, 843752, 846136, 848495, 850830, 853141, 855428, 857690, 859929, 862143,
     864334, 866500, 868643, 870762, 872857, 874928, 876976, 879000, 881000, 882977,
     884930, 886861, 888768, 890651, 892512, 894350, 896165, 897958, 899727, 901475,
     903200, 904902, 906582, 908241, 909877, 911492, 913085, 914657, 916207, 917736,
     919243, 920730, 922196, 923641, 925066, 926471, 927855, 929219, 930563, 931888,
     933193, 934478, 935745, 936992, 938220, 939429, 940620, 941792, 942947, 944083,
     945201, 946301, 947384, 948449, 949497, 950529, 951543, 952540, 953521, 954486,
     955435, 956367, 957284, 958185, 959070, 959941, 960796, 961636, 962462, 963273,
     964070, 964852, 965620, 966375, 967116, 967843, 968557, 969258, 969946, 970621,
     971283, 971933, 972571, 973197, 973810, 974412, 975002, 975581, 976148, 976705,
     977250, 977784, 978308, 978822, 979325, 979818, 980301, 980774, 981237, 981691,
     982136, 982571, 982997, 983414, 983823, 984222, 984614, 984997, 985371, 985738,
     986097, 986447, 986791, 987126, 987455, 987776, 988089, 988396, 988696, 988989,
     989276, 989556, 989830, 990097, 990358, 990613, 990863, 991106, 991344, 991576,
     991802, 992024, 992240, 992451, 992656, 992857, 993053, 993244, 993431, 993613,
     993790, 993963, 994132, 994297, 994457, 994614, 994766, 994915, 995060, 995201,
     995339, 995473, 995604, 995731, 995855, 995975, 996093, 996207, 996319, 996427,
     996533, 996636, 996736, 996833, 996928, 997020, 997110, 997197, 997282, 997365,
     997445, 997523, 997599, 997673, 997744, 997814, 997882, 997948, 998012, 998074,
     998134, 998193, 998250, 998305, 998359, 998411, 998462, 998511, 998559, 998605,
     998650, 998694, 998736, 998777, 998817, 998856, 998893, 998930, 998965, 998999,
     999032, 999065, 999096, 999126, 999155, 999184, 999211, 999238, 999264, 999289,
     999313, 999336, 999359, 999381, 999402, 999423, 999443, 999462, 999481, 999499,
     999517, 999534, 999550, 999566, 999581, 999596, 999610, 999624, 999638, 999651,
     999663, 999675, 999687, 999698, 999709, 999720, 999730, 999740, 999749, 999758,
     999767, 999776, 999784, 999792, 999800, 999807, 999815, 999822, 999828, 999835,
     999841, 999847, 999853, 999858, 999864, 999869, 999874, 999879, 999883, 999888,
     999892, 999896, 999900, 999904, 999908, 999912, 999915, 999918, 999922, 999925,
     999928, 999931, 999933, 999936, 999938, 999941, 999943, 999946, 999948, 999950,
     999952, 999954, 999956, 999958, 999959, 999961, 999963, 999964, 999966, 999967,
     999968, 999970, 999971, 999972, 999973, 999974, 999975, 999976, 999977, 999978,
     999979, 999980, 999981, 999982, 999983, 999983, 999984, 999985, 999985, 999986,
     999987, 999987, 999988, 999988, 999989, 999989, 999990, 999990, 999991, 999991,
     999991, 999992, 999992, 999993, 999993, 999993, 999993, 999994, 999994, 999994,
     999995, 999995, 999995, 999995, 999996, 999996, 999996, 999996, 999996, 999996,
     999997, 999997, 999997, 999997, 999997, 999997, 999997, 999998, 999998, 999998,
     999998, 999998, 999998, 999998, 999998, 999998, 999998, 999998, 999999, 999999,
     999999, 999999, 999999, 999999, 999999, 999999, 999999, 999999, 999999, 999999,
     999999, 999999, 999999, 999999, 999999, 999999, 999999, 999999, 999999, 999999,
     1000000, 1000000, 1000000, 1000000, 1000000, 1000000, 1000000, 1000000, 1000000, 1000000,
     1000000, 1000000 >>

\* scipy.stats.norm.cdf: x in 1e-4, result in 1e-6 (table step 0.01, interpolated)
NormCdfPos(x) ==
  IF x >= 50000 THEN 1000000
  ELSE LET i == x \div 100
           f == x % 100
           a == NormCdfTable[i + 1]
           b == NormCdfTable[i + 2]
       IN a + ((b - a) * f) \div 100

norm_cdf(x) == IF x >= 0 THEN NormCdfPos(x) ELSE 1000000 - NormCdfPos(0 - x)

\* norm.pdf(i / 100) in 1e-6, i = 0..501
NormPdfTable ==
  << 398942, 398922, 398862, 398763, 398623, 398444, 398225, 397966, 397668, 397330,
     396953, 396536, 396080, 395585, 395052, 394479, 393868, 393219, 392531, 391806,
     391043, 390242, 389404, 388529, 387617, 386668, 385683, 384663, 383606, 382515,
     381388, 380226, 379031, 377801, 376537, 375240, 373911, 372548, 371154, 369728,
     368270, 366782, 365263, 363714, 362135, 360527, 358890, 357225, 355533, 353812,
     352065, 350292, 348493, 346668, 344818, 342944, 341046, 339124, 337180, 335213,
     333225, 331215, 329184, 327133, 325062, 322972, 320864, 318737, 316593, 314432,
     312254, 310060, 307851, 305627, 303389, 301137, 298872, 296595, 294305, 292004,
     289692, 287369, 285036, 282694, 280344, 277985, 275618, 273244, 270864, 268477,
     266085, 263688, 261286, 258881, 256471, 254059, 251644, 249228, 246809, 244390,
     241971, 239551, 237132, 234714, 232297, 229882, 227470, 225060, 222653, 220251,
     217852, 215458, 213069, 210686, 208308, 205936, 203571, 201214, 198863, 196520,
     194186, 191860, 189543, 187235, 184937, 182649, 180371, 178104, 175847, 173602,
     171369, 169147, 166937, 164740, 162555, 160383, 158225, 156080, 153948, 151831,
     149727, 147639, 145564, 143505, 141460, 139431, 137417, 135418, 133435, 131468,
     129518, 127583, 125665, 123763, 121878, 120009, 118157, 116323, 114505, 112704,
     110921, 109155, 107406, 105675, 103961, 102265, 100586, 98925, 97282, 95657,
     94049, 92459, 90887, 89333, 87796, 86277, 84776, 83293, 81828, 80380,
     78950, 77538, 76143, 74766, 73407, 72065, 70740, 69433, 68144, 66871,
     65616, 64378, 63157, 61952, 60765, 59595, 58441, 57304, 56183, 55079,
     53991, 52919, 51864, 50824, 49800, 48792, 47800, 46823, 45861, 44915,
     43984, 43067, 42166, 41280, 40408, 39550, 38707, 37878, 37063, 36262,
     35475, 34701, 33941, 33194, 32460, 31740, 31032, 30337, 29655, 28985,
     28327, 27682, 27048, 26426, 25817, 25218, 24631, 24056, 23491, 22937,
     22395, 21862, 21341, 20829, 20328, 19837, 19356, 18885, 18423, 17971,
     17528, 17095, 16670, 16254, 15848, 15449, 15060, 14678, 14305, 13940,
     13583, 13234, 12892, 12558, 12232, 11912, 11600, 11295, 10997, 10706,
     10421, 10143, 9871, 9606, 9347, 9094, 8846, 8605, 8370, 8140,
     7915, 7697, 7483, 7274, 7071, 6873, 6679, 6491, 6307, 6127,
     5953, 5782, 5616, 5454, 5296, 5143, 4993, 4847, 4705, 4567,
     4432, 4301, 4173, 4049, 3928, 3810, 3695, 3584, 3475, 3370,
     3267, 3167, 3070, 2975, 2884, 2794, 2707, 2623, 2541, 2461,
     2384, 2309, 2236, 2165, 2096, 2029, 1964, 1901, 1840, 1780,
     1723, 1667, 1612, 1560, 1508, 1459, 1411, 1364, 1319, 1275,
     1232, 1191, 1151, 1112, 1075, 1038, 1003, 969, 936, 904,
     873, 843, 814, 785, 758, 732, 706, 681, 657, 634,
     612, 590, 569, 549, 529, 510, 492, 474, 457, 441,
     425, 409, 394, 380, 366, 353, 340, 327, 315, 303,
     292, 281, 271, 260, 251, 241, 232, 223, 215, 207,
     199, 191, 184, 177, 170, 163, 157, 151, 145, 139,
     134, 129, 124, 119, 114, 109, 105, 101, 97, 93,
     89, 86, 82, 79, 76, 73, 70, 67, 64, 61,
     59, 57, 54, 52, 50, 48, 46, 44, 42, 40,
     39, 37, 35, 34, 32, 31, 30, 28, 27, 26,
     25, 24, 23, 22, 21, 20, 19, 18, 17, 17,
     16, 15, 15, 14, 13, 13, 12, 12, 11, 11,
     10, 10, 9, 9, 8, 8, 8, 7, 7, 7,
     6, 6, 6, 6, 5, 5, 5, 5, 4, 4,
     4, 4, 4, 3, 3, 3, 3, 3, 3, 3,
     2, 2, 2, 2, 2, 2, 2, 2, 2, 2,
     1, 1 >>

\* norm.pdf(x) in 1e-6, x in 1e-4, by linear interpolation in the table
norm_pdf(x) ==
  LET y == Abs(x)
      i == y \div 100
      f == y % 100
  IN IF y >= 50000 THEN 0
     ELSE NormPdfTable[i + 1]
          - ((NormPdfTable[i + 1] - NormPdfTable[i + 2]) * f) \div 100

\* np.sqrt(T) in 1e-4, T = days / 365
SqrtT(days) == Isqrt(((days * 1000000) \div 365) * 100)

\* T in 1e-4 years
T4(days) == (days * 10000) \div 365

\* np.exp(-r * T) in 1e-6 (r in basis points), by 1 - x + x^2/2 - x^3/6
DiscountFactor(r, days) ==
  LET x == (r * T4(days)) \div 100
      h == x \div 100
  IN 1000000 - x + (h * h) \div 200 - (h * h * h) \div 6000000

\* sigma * sqrt(T) in 1e-6
VolSqrtT(sigma, days) == (sigma * SqrtT(days)) \div 100

\* quotient num / den in 1e-4 by long division (|num| < 2 * 10^6, den > 0)
QuotLong(num, den) ==
  LET q == (num * 1000) \div den
      m == (num * 1000) % den
  IN q * 10 + (m * 10) \div den

\* quotient num / den in 1e-4, num and den in 1e-6; a large pair is scaled down
\* first so that the division stays within 32 bits
Quot4(num, den) ==
  IF den > 200000 THEN QuotLong(num \div 100, den \div 100)
  ELSE QuotLong(num, den)

\* 0.5 * sigma**2 in 1e-6 (sigma in basis points, up to 10^5)
HalfSigmaSq(sigma) ==
  ((sigma \div 100) * sigma) \div 2 + ((sigma % 100) * sigma) \div 200

\* (r + 0.5 * sigma**2) * T in 1e-6
Drift(r, sigma, days) ==
  LET x == r * 100 + HalfSigmaSq(sigma)
  IN (x \div 10000) * T4(days) + ((x % 10000) * T4(days)) \div 10000

d1(S, K, r, sigma, days) ==
  IF Le(days, 0) \/ Le(sigma, 0) THEN NaN
  ELSE IF IsNaN(S) \/ IsNaN(K) \/ IsNaN(r) \/ IsNaN(sigma) \/ IsNaN(days) THEN NaN
  ELSE Quot4(Ln6(S, K) + Drift(r, sigma, days), VolSqrtT(sigma, days))

\* d1 - sigma sqrt(T) (line 53) for a d1 already computed
D2Of(d1_val, sigma, days) ==
  IF IsNaN(d1_val) THEN NaN ELSE d1_val - VolSqrtT(sigma, days) \div 100

d2(S, K, r, sigma, days) ==
  IF Le(days, 0) \/ Le(sigma, 0) THEN NaN
  ELSE D2Of(d1(S, K, r, sigma, days), sigma, days)

\* K * exp(-r T) in 1e-4 dollars
DiscountedStrike(K, r, days) == (K * DiscountFactor(r, days)) \div 100

\* 1e-4 dollars to cents, rounded; NaN stays NaN
ToCents(x) == IF IsNaN(x) THEN NaN ELSE (x + 50) \div 100

\* S N(d1) - K e^{-rT} N(d2) (lines 79-82), strike the discounted strike
CallFormula(S, strike, d1_val, d2_val) ==
  IF IsNaN(d1_val) \/ IsNaN(d2_val) THEN NaN
  ELSE MulDiv6(S * 10000, norm_cdf(d1_val)) - MulDiv6(strike, norm_cdf(d2_val))

\* K e^{-rT} N(-d2) - S N(-d1) (lines 108-111)
PutFormula(S, strike, d1_val, d2_val) ==
  IF IsNaN(d1_val) \/ IsNaN(d2_val) THEN NaN
  ELSE MulDiv6(strike, norm_cdf(0 - d2_val)) - MulDiv6(S * 10000, norm_cdf(0 - d1_val))

\* the call's value in 1e-4 dollars
CallValue(S, K, r, sigma, days) ==
  IF Le(days, 0) THEN Max(0, S - K) * 10000
  ELSE IF Le(sigma, 0) THEN Max(0, S * 10000 - DiscountedStrike(K, r, days))
  ELSE CallFormula(S, DiscountedStrike(K, r, days), d1(S, K, r, sigma, days),
                   d2(S, K, r, sigma, days))

\* a put valued with the upper tails N(d2), N(d1) in place of N(-d2), N(-d1)
PutValue_UpperTails(S, K, r, sigma, days) ==
  IF Le(days, 0) THEN Max(0, K - S) * 10000
  ELSE IF Le(sigma, 0) THEN Max(0, DiscountedStrike(K, r, days) - S * 10000)
  ELSE IF IsNaN(d1(S, K, r, sigma, days)) THEN NaN
  ELSE MulDiv6(DiscountedStrike(K, r, days), norm_cdf(d2(S, K, r, sigma, days)))
       - MulDiv6(S * 10000, norm_cdf(d1(S, K, r, sigma, days)))

\* the put's value in 1e-4 dollars
PutValue(S, K, r, sigma, days) ==
  IF Le(days, 0) THEN Max(0, K - S) * 10000
  ELSE IF Le(sigma, 0) THEN Max(0, DiscountedStrike(K, r, days) - S * 10000)
  ELSE PutFormula(S, DiscountedStrike(K, r, days), d1(S, K, r, sigma, days),
                  d2(S, K, r, sigma, days))

\* the prices the strategy compares with mid are in cents
call_price(S, K, r, sigma, days) == ToCents(CallValue(S, K, r, sigma, days))

put_price(S, K, r, sigma, days) == ToCents(PutValue(S, K, r, sigma, days))

\* call_delta that counts the option at the money as in the money at expiry
call_delta_AtTheMoney(S, K, r, sigma, days) ==
  IF Le(days, 0) THEN (IF S >= K THEN 1000000 ELSE 0)
  ELSE IF IsNaN(d1(S, K, r, sigma, days)) THEN NaN
  ELSE norm_cdf(d1(S, K, r, sigma, days))

\* the deltas are in 1e-6
call_delta(S, K, r, sigma, days) ==
  IF Le(days, 0) THEN (IF S > K THEN 1000000 ELSE 0)
  ELSE IF IsNaN(d1(S, K, r, sigma, days)) THEN NaN
  ELSE norm_cdf(d1(S, K, r, sigma, days))

put_delta(S, K, r, sigma, days) ==
  IF Le(days, 0) THEN (IF S < K THEN -1000000 ELSE 0)
  ELSE IF IsNaN(d1(S, K, r, sigma, days)) THEN NaN
  ELSE norm_cdf(d1(S, K, r, sigma, days)) - 1000000

\* gamma in 1e-6 per dollar
gamma(S, K, r, sigma, days) ==
  IF Le(days, 0) \/ Le(sigma, 0) THEN 0
  ELSE IF IsNaN(d1(S, K, r, sigma, days)) THEN NaN
  ELSE (norm_pdf(d1(S, K, r, sigma, days)) * 1000)
         \div ((S * VolSqrtT(sigma, days)) \div 1000)

\* vega in 1e-6 dollars per 1% of volatility
vega(S, K, r, sigma, days) ==
  IF Le(days, 0) \/ Le(sigma, 0) THEN 0
  ELSE IF IsNaN(d1(S, K, r, sigma, days)) THEN NaN
  ELSE MulDiv6(S * SqrtT(days), norm_pdf(d1(S, K, r, sigma, days)))

\* -(S * sigma * norm.pdf(d1)) / (2 * np.sqrt(T)) in 1e-4 dollars per year
ThetaCommon(S, K, r, sigma, days) ==
  LET a == MulDiv6(S * 10000, norm_pdf(d1(S, K, r, sigma, days)))
      b == (a * 1000) \div SqrtT(days)
  IN 0 - ((b \div 2000) * sigma + ((b % 2000) * sigma) \div 2000)

\* r * K * np.exp(-r * T) * norm.cdf(x) in 1e-4 dollars per year
ThetaSpecific(K, r, days, x) ==
  (MulDiv6(DiscountedStrike(K, r, days), norm_cdf(x)) * r) \div 10000

\* the thetas are in 1e-6 dollars per day
call_theta(S, K, r, sigma, days) ==
  IF Le(days, 0) \/ Le(sigma, 0) THEN 0
  ELSE LET d1_val == d1(S, K, r, sigma, days)
           d2_val == d2(S, K, r, sigma, days)
       IN IF IsNaN(d1_val) \/ IsNaN(d2_val) THEN NaN
          ELSE ((ThetaCommon(S, K, r, sigma, days)
                 - ThetaSpecific(K, r, days, d2_val)) * 100) \div 365

put_theta(S, K, r, sigma, days) ==
  IF Le(days, 0) \/ Le(sigma, 0) THEN 0
  ELSE LET d1_val == d1(S, K, r, sigma, days)
           d2_val == d2(S, K, r, sigma, days)
       IN IF IsNaN(d1_val) \/ IsNaN(d2_val) THEN NaN
          ELSE ((ThetaCommon(S, K, r, sigma, days)
                 + ThetaSpecific(K, r, days, 0 - d2_val)) * 100) \div 365

\* K * T * np.exp(-r * T) * norm.cdf(x) * 0.01 in 1e-6 dollars per 1% of rate
RhoTerm(K, r, days, x) ==
  MulDiv6(MulDiv6(DiscountedStrike(K, r, days), norm_cdf(x)), T4(days) * 100)

call_rho(S, K, r, sigma, days) ==
  IF Le(days, 0) THEN 0
  ELSE IF IsNaN(d2(S, K, r, sigma, days)) THEN NaN
  ELSE RhoTerm(K, r, days, d2(S, K, r, sigma, days))

put_rho(S, K, r, sigma, days) ==
  IF Le(days, 0) THEN 0
  ELSE IF IsNaN(d2(S, K, r, sigma, days)) THEN NaN
  ELSE 0 - RhoTerm(K, r, days, 0 - d2(S, K, r, sigma, days))

\* the implied-volatility search: volatilities in basis points, prices and
\* epsilon in 1e-4 dollars
InitialSigma == 2000
MinSigma == 10
MaxSigma == 100000
DefaultEpsilon == 1
DefaultMaxIterations == 100

\* the arbitrage floor: max(0, S - K e^{-rT}) for a call, max(0, K e^{-rT} - S)
\* for a put, in 1e-4 dollars
intrinsic_value(kind, S, K, r, days) ==
  IF kind = "call" THEN Max(0, S * 10000 - DiscountedStrike(K, r, days))
  ELSE Max(0, DiscountedStrike(K, r, days) - S * 10000)

\* call_price or put_price at the candidate sigma, in 1e-4 dollars
ModelValue(kind, S, K, r, sigma, days) ==
  IF kind = "call" THEN CallValue(S, K, r, sigma, days)
  ELSE PutValue(S, K, r, sigma, days)

\* |price_diff / vega_val| in basis points for a >= 0 and v > 0, by long
\* division; a step of 20.0 or more is recorded as 20.0, which takes any
\* candidate past the cap or down to the floor all the same
StepSize(a, v) ==
  LET q1 == a \div v
      r1 == a % v
      q2 == (r1 * 100) \div v
      r2 == (r1 * 100) % v
      q3 == (r2 * 100) \div v
  IN IF q1 >= 20 THEN 200000 ELSE q1 * 10000 + q2 * 100 + q3

\* sigma - price_diff / vega_val
NewtonStep(sigma, price_diff, vega_val) ==
  IF price_diff >= 0 THEN sigma - StepSize(price_diff, vega_val)
  ELSE sigma + StepSize(0 - price_diff, vega_val)

\* the early returns without the test against the arbitrage floor
RejectedAtOnce_NoFloor(kind, price, S, K, r, days) ==
  \/ Le(days, 0)
  \/ Le(price, 0)

\* the early returns (lines 344-353 and 398-407): TRUE when NaN is returned
\* before the loop
RejectedAtOnce(kind, price, S, K, r, days) ==
  \/ Le(days, 0)
  \/ Le(price, 0)
  \/ Lt(price, intrinsic_value(kind, S, K, r, days))

\* a loop body that goes on after the last iteration of the budget
Iteration_NoBudget(q, S, K, r, days) ==
  LET price_diff == ModelValue(q.kind, S, K, r, q.sigma, days) - q.price
      vega_val   == vega(S, K, r, q.sigma, days)
      sigma      == NewtonStep(q.sigma, price_diff, vega_val)
      done(outcome, result) ==
        [q EXCEPT !.pc = "done", !.i = q.i + 1, !.outcome = outcome,
                  !.result = result]
  IN IF Abs(price_diff) < q.epsilon THEN done("success", q.sigma)
     ELSE IF vega_val = 0 THEN done("stalled", NaN)
     ELSE IF sigma <= MinSigma THEN [q EXCEPT !.sigma = MinSigma, !.i = q.i + 1]
     ELSE IF sigma > MaxSigma THEN done("cap", NaN)
     ELSE [q EXCEPT !.sigma = sigma, !.i = q.i + 1]

\* a loop body that does not test the candidate against the cap
Iteration_NoCap(q, S, K, r, days) ==
  LET price_diff == ModelValue(q.kind, S, K, r, q.sigma, days) - q.price
      vega_val   == vega(S, K, r, q.sigma, days)
      sigma      == NewtonStep(q.sigma, price_diff, vega_val)
      done(outcome, result) ==
        [q EXCEPT !.pc = "done", !.i = q.i + 1, !.outcome = outcome,
                  !.result = result]
  IN IF Abs(price_diff) < q.epsilon THEN done("success", q.sigma)
     ELSE IF vega_val = 0 THEN done("stalled", NaN)
     ELSE IF sigma <= MinSigma
       THEN IF q.i + 1 >= q.max_iterations
              THEN [done("exhausted", NaN) EXCEPT !.sigma = MinSigma]
              ELSE [q EXCEPT !.sigma = MinSigma, !.i = q.i + 1]
     ELSE IF q.i + 1 >= q.max_iterations
       THEN [done("exhausted", NaN) EXCEPT !.sigma = sigma]
     ELSE [q EXCEPT !.sigma = sigma, !.i = q.i + 1]

\* one pass of the loop body (lines 359-375 and 413-429) on the search state q;
\* vega_val is vega * 100, and a vega below 1e-10 is one the fixed point shows as 0
Iteration(q, S, K, r, days) ==
  LET price_diff == ModelValue(q.kind, S, K, r, q.sigma, days) - q.price
      vega_val   == vega(S, K, r, q.sigma, days)
      sigma      == NewtonStep(q.sigma, price_diff, vega_val)
      done(outcome, result) ==
        [q EXCEPT !.pc = "done", !.i = q.i + 1, !.outcome = outcome,
                  !.result = result]
  IN IF Abs(price_diff) < q.epsilon THEN done("success", q.sigma)
     ELSE IF vega_val = 0 THEN done("stalled", NaN)
     ELSE IF sigma <= MinSigma
       THEN IF q.i + 1 >= q.max_iterations
              THEN [done("exhausted", NaN) EXCEPT !.sigma = MinSigma]
              ELSE [q EXCEPT !.sigma = MinSigma, !.i = q.i + 1]
     ELSE IF sigma > MaxSigma THEN done("cap", NaN)
     ELSE IF q.i + 1 >= q.max_iterations
       THEN [done("exhausted", NaN) EXCEPT !.sigma = sigma]
     ELSE [q EXCEPT !.sigma = sigma, !.i = q.i + 1]

\* the state of a call of call_implied_volatility or put_implied_volatility
\* when it reaches the loop, or its result when it returns before
implied_volatility(kind, price, S, K, r, days, epsilon, max_iterations) ==
  LET q == [fn |-> "iv", kind |-> kind, price |-> price, epsilon |-> epsilon,
            max_iterations |-> max_iterations, pc |-> "loop",
            sigma |-> InitialSigma, i |-> 0, outcome |-> "none", result |-> NaN]
  IN IF RejectedAtOnce(kind, price, S, K, r, days)
       THEN [q EXCEPT !.pc = "done", !.outcome = "rejected"]
     ELSE IF max_iterations <= 0
       THEN [q EXCEPT !.pc = "done", !.outcome = "exhausted"]
     ELSE q


(***************************************************************************)
(* BlackScholesArbitrage (strategies/black_scholes_arbitrage.py)           *)
(***************************************************************************)

\* str.lower() on the option types the data may hold
Lower(t) ==
  CASE t = "CALL" -> "call"
    [] t = "Put"  -> "put"
    [] OTHER      -> t

\* the fixed risk-free rate, 0.02, in basis points
RiskFreeRate == 200
\* the default volatility, 0.30, in basis points
DefaultVolatility == 3000

\* column names tested by the eligibility filter
RequiredFields ==
  {"option_type", "strike", "expiration", "date", "mid", "underlying_price"}

\* pd.isna(option[field]); a missing option_type is the string "nan"
IsNa(option, f) ==
  IF f = "option_type" THEN option.option_type = "nan" ELSE IsNaN(option[f])

\* pd.to_datetime(v) raises on a string that is not a date
ToDatetimeRaises(v) == v = BadDate

\* option['days_to_expiry'] if the column exists, else (expiration - date).days
DaysToExpiry(option) ==
  IF option.days_to_expiry # Absent THEN option.days_to_expiry
  ELSE option.expiration - option.date

\* initialize without the comparison of the two day bounds
initialize_NoOrderCheck(cfg) ==
  IF cfg.symbols = {} THEN FALSE
  ELSE IF cfg.min_price_discrepancy <= 0 THEN FALSE
  ELSE IF cfg.min_volatility <= 0 \/ cfg.max_volatility <= 0 THEN FALSE
  ELSE IF cfg.min_days_to_expiration <= 0 \/ cfg.max_days_to_expiration <= 0 THEN FALSE
  ELSE TRUE

initialize(cfg) ==
  IF cfg.symbols = {} THEN FALSE
  ELSE IF cfg.min_price_discrepancy <= 0 THEN FALSE
  ELSE IF cfg.min_volatility <= 0 \/ cfg.max_volatility <= 0 THEN FALSE
  ELSE IF cfg.min_days_to_expiration <= 0 \/ cfg.max_days_to_expiration <= 0 THEN FALSE
  ELSE IF cfg.min_days_to_expiration > cfg.max_days_to_expiration THEN FALSE
  ELSE TRUE

\* the filter reaches pd.to_datetime (lines 253-254) with an unparseable value
EligibleRaises(option) ==
  /\ \A f \in RequiredFields : ~IsNa(option, f)
  /\ Lower(option.option_type) \in {"call", "put"}
  /\ option.days_to_expiry = Absent
  /\ (ToDatetimeRaises(option.date) \/ ToDatetimeRaises(option.expiration))

_is_option_eligible(option, cfg, hv) ==
  IF \E f \in RequiredFields : IsNa(option, f) THEN FALSE
  ELSE IF Lower(option.option_type) \notin {"call", "put"} THEN FALSE
  ELSE IF \/ Lt(DaysToExpiry(option), cfg.min_days_to_expiration)
          \/ Gt(DaysToExpiry(option), cfg.max_days_to_expiration) THEN FALSE
  ELSE IF /\ hv[option.symbol] # Absent
          /\ \/ Lt(hv[option.symbol], cfg.min_volatility)
             \/ Gt(hv[option.symbol], cfg.max_volatility) THEN FALSE
  ELSE IF Le(option.mid, 0) THEN FALSE
  ELSE TRUE

_calculate_theoretical_price(option, hv) ==
  LET S     == option.underlying_price
      K     == option.strike
      days  == DaysToExpiry(option)
      sigma == IF hv[option.symbol] # Absent THEN hv[option.symbol]
               ELSE DefaultVolatility
      r     == RiskFreeRate
      option_type == Lower(option.option_type)
  IN IF option_type = "call" THEN call_price(S, K, r, sigma, days)
     ELSE IF option_type = "put" THEN put_price(S, K, r, sigma, days)
     ELSE NaN

\* line 179 divides by the theoretical price. For T <= 0 or sigma <= 0 the
\* model returns max(0, ...) (black_scholes.py lines 71, 74, 100, 103), which is
\* the int 0 when the other argument is not positive; the mid of a row of
\* iterrows() over a frame with string columns is a Python float, and a float
\* divided by the int 0 raises ZeroDivisionError
DiscrepancyRaises(option, hv) ==
  LET S     == option.underlying_price
      K     == option.strike
      days  == DaysToExpiry(option)
      sigma == IF hv[option.symbol] # Absent THEN hv[option.symbol]
               ELSE DefaultVolatility
      value == IF Lower(option.option_type) = "call"
                 THEN CallValue(S, K, RiskFreeRate, sigma, days)
                 ELSE PutValue(S, K, RiskFreeRate, sigma, days)
  IN (Le(days, 0) \/ Le(sigma, 0)) /\ value = 0

\* abs(market - theoretical) / theoretical >= threshold (basis points); a
\* theoretical price of the pricing formula that is 0 to the cent is a tiny or
\* zero numpy float, and dividing by it gives a huge quotient or inf
DiscrepancyAtLeast(market_price, theoretical_price, threshold) ==
  IF theoretical_price > 0
    THEN Abs(market_price - theoretical_price) * 10000 >= threshold * theoretical_price
  ELSE IF theoretical_price = 0 THEN market_price # 0
  ELSE Abs(market_price - theoretical_price) * 10000 <= threshold * theoretical_price

\* the quotient without the cap
CappedRatio_NoCap(a, theoretical_price) ==
  IF theoretical_price = 0 THEN (IF a > 0 THEN 1000000 ELSE NaN)
  ELSE (a * 10000) \div theoretical_price

\* (a / theoretical) in basis points, capped at 1.0 by min(signal_strength, 1.0)
CappedRatio(a, theoretical_price) ==
  IF theoretical_price = 0 THEN (IF a > 0 THEN 10000 ELSE NaN)
  ELSE Min((a * 10000) \div theoretical_price, 10000)

\* f"{symbol}_{expiration:%Y%m%d}_{option_type}_{strike:.2f}"
OptionSymbol(option) ==
  <<option.symbol, option.expiration, Lower(option.option_type), option.strike * 100>>

\* _generate_signal formats the expiration and the date with pd.to_datetime
GenerateSignalRaises(option) ==
  ToDatetimeRaises(option.expiration) \/ ToDatetimeRaises(option.date)

\* _generate_signal with the two directions exchanged
_generate_signal_Swapped(option, theoretical_price) ==
  LET market_price == option.mid
      signal_type == IF market_price < theoretical_price THEN "SELL" ELSE "BUY"
  IN [symbol        |-> OptionSymbol(option),
      type          |-> signal_type,
      strength      |-> CappedRatio(Abs(market_price - theoretical_price),
                                    theoretical_price),
      target_price  |-> theoretical_price,
      stop_loss     |-> IF signal_type = "BUY" THEN market_price * 9
                        ELSE market_price * 11,
      timestamp     |-> option.date,
      strategy_name |-> "BlackScholesArbitrage"]

\* stop_loss is in tenths of a cent: market_price * 0.9 or market_price * 1.1
_generate_signal(option, theoretical_price) ==
  LET market_price == option.mid
      signal_type == IF market_price < theoretical_price THEN "BUY" ELSE "SELL"
      signal_strength ==
        IF signal_type = "BUY"
          THEN CappedRatio(theoretical_price - market_price, theoretical_price)
          ELSE CappedRatio(market_price - theoretical_price, theoretical_price)
  IN [symbol        |-> OptionSymbol(option),
      type          |-> signal_type,
      strength      |-> signal_strength,
      target_price  |-> theoretical_price,
      stop_loss     |-> IF signal_type = "BUY" THEN market_price * 9
                        ELSE market_price * 11,
      timestamp     |-> option.date,
      strategy_name |-> "BlackScholesArbitrage"]

Symbols == {"ABC", "XYZ"}
\* groupby('symbol') yields the groups in sorted key order
SymbolOrder == <<"ABC", "XYZ">>

RECURSIVE SortedSeq(_)
\* sorted(dates)
SortedSeq(S) ==
  IF S = {} THEN <<>>
  ELSE LET m == CHOOSE x \in S : \A y \in S : x <= y
       IN <<m>> \o SortedSeq(S \ {m})

RECURSIVE SumSeq(_)
SumSeq(s) == IF s = <<>> THEN 0 ELSE Head(s) + SumSeq(Tail(s))

\* np.diff(np.log(prices)) in 1e-6
LogReturns(prices) ==
  [i \in 1..(Len(prices) - 1) |-> Ln6(prices[i + 1], prices[i])]

\* np.std(returns): the population standard deviation (ddof = 0), in 1e-5
NpStd(returns) ==
  LET n    == Len(returns)
      mean == SumSeq(returns) \div n
      sq   == [i \in 1..n |-> ((returns[i] - mean) \div 10) * ((returns[i] - mean) \div 10)]
  IN Isqrt(SumSeq(sq) \div n)

\* np.std(np.diff(np.log(prices))) * np.sqrt(252) in basis points; NaN spreads
AnnualizedVol(prices) ==
  IF \E i \in 1..Len(prices) : IsNaN(prices[i]) THEN NaN
  ELSE (NpStd(LogReturns(prices)) * 158745) \div 100000

\* date_data['underlying_price'].iloc[0] for each date of sorted(dates)
PricesByDate(symbol_data) ==
  LET dates == SortedSeq({symbol_data[i].date : i \in 1..Len(symbol_data)})
      first(d) == CHOOSE i \in 1..Len(symbol_data) :
                    /\ symbol_data[i].date = d
                    /\ \A j \in 1..(i - 1) : symbol_data[j].date # d
  IN [k \in 1..Len(dates) |-> symbol_data[first(dates[k])].underlying_price]

\* a refresh that forgets the estimate when it sees fewer than two dates
_update_historical_volatility_Forget(symbol, market_data, hv) ==
  LET symbol_data == SelectSeq(market_data, LAMBDA row : row.symbol = symbol)
      prices == PricesByDate(symbol_data)
  IN IF symbol_data = <<>> THEN hv
     ELSE IF Len(prices) >= 2
       THEN [hv EXCEPT ![symbol] = AnnualizedVol(prices)]
     ELSE [hv EXCEPT ![symbol] = Absent]

\* returns the cache after the call
_update_historical_volatility(symbol, market_data, hv) ==
  LET symbol_data == SelectSeq(market_data, LAMBDA row : row.symbol = symbol)
      prices == PricesByDate(symbol_data)
  IN IF symbol_data = <<>> THEN hv
     ELSE IF Len(prices) >= 2
       THEN [hv EXCEPT ![symbol] = AnnualizedVol(prices)]
     ELSE hv

RECURSIVE ScanOptions(_, _, _, _)
\* the loop over one symbol's option rows (lines 166-185)
ScanOptions(rows, cfg, hv, acc) ==
  IF rows = <<>> THEN [signals |-> acc, raised |-> FALSE]
  ELSE LET option == Head(rows)
           theoretical_price == _calculate_theoretical_price(option, hv)
       IN IF EligibleRaises(option) THEN [signals |-> acc, raised |-> TRUE]
          ELSE IF ~_is_option_eligible(option, cfg, hv)
            THEN ScanOptions(Tail(rows), cfg, hv, acc)
          ELSE IF IsNaN(theoretical_price)
            THEN ScanOptions(Tail(rows), cfg, hv, acc)
          ELSE IF DiscrepancyRaises(option, hv)
            THEN [signals |-> acc, raised |-> TRUE]
          ELSE IF DiscrepancyAtLeast(option.mid, theoretical_price,
                                     cfg.min_price_discrepancy)
            THEN IF GenerateSignalRaises(option)
                   THEN [signals |-> acc, raised |-> TRUE]
                   ELSE ScanOptions(Tail(rows), cfg, hv,
                          Append(acc, _generate_signal(option, theoretical_price)))
          ELSE ScanOptions(Tail(rows), cfg, hv, acc)

RECURSIVE ScanSymbols(_, _, _, _, _, _)
\* the loop over the symbol groups (lines 157-185)
ScanSymbols(k, market_data, options_data, cfg, hv, acc) ==
  IF k > Len(SymbolOrder) THEN [signals |-> acc, hv |-> hv, raised |-> FALSE]
  ELSE LET symbol == SymbolOrder[k]
           symbol_data == SelectSeq(options_data, LAMBDA row : row.symbol = symbol)
           hv2 == _update_historical_volatility(symbol, market_data, hv)
           scan == ScanOptions(symbol_data, cfg, hv2, acc)
       IN IF symbol_data = <<>>
            THEN ScanSymbols(k + 1, market_data, options_data, cfg, hv, acc)
          ELSE IF cfg.symbols # {} /\ symbol \notin cfg.symbols
            THEN ScanSymbols(k + 1, market_data, options_data, cfg, hv, acc)
          ELSE IF scan.raised
            THEN [signals |-> scan.signals, hv |-> hv2, raised |-> TRUE]
          ELSE ScanSymbols(k + 1, market_data, options_data, cfg, hv2, scan.signals)

\* a strategy that books a purchase on the portfolio it is handed
StrategyPortfolio_Spend(portfolio) == [portfolio EXCEPT !.cash = @ - 100]

\* what the strategy does to the portfolio it is handed: it never touches it
StrategyPortfolio(portfolio) == portfolio

\* BlackScholesArbitrage.execute: the signals, the cache afterwards, whether it
\* raised, and the portfolio afterwards
execute(cfg, hv, market_data, portfolio) ==
  LET options_data == SelectSeq(market_data, LAMBDA row : row.option_type # "nan")
      scan == ScanSymbols(1, market_data, options_data, cfg, hv, <<>>)
  IN IF market_data = <<>> \/ options_data = <<>>
       THEN [signals |-> <<>>, hv |-> hv, raised |-> FALSE,
             portfolio |-> StrategyPortfolio(portfolio)]
     ELSE [signals |-> IF scan.raised THEN <<>> ELSE scan.signals,
           hv |-> scan.hv, raised |-> scan.raised,
           portfolio |-> StrategyPortfolio(portfolio)]

(***************************************************************************)
(* BacktestEngine (backtest/engine.py)                                     *)
(***************************************************************************)

\* the number of calendar dates the data may span
MaxDate == 3
Dates == 1..MaxDate

\* BacktestEngine.__init__ defaults
initial_capital == 100000
commission == 0

Row(d, s, t, k, e, m, u, dte) ==
  [date |-> d, symbol |-> s, option_type |-> t, strike |-> k, expiration |-> e,
   mid |-> m, underlying_price |-> u, days_to_expiry |-> dte]

\* rows of a loaded file (load_csv adds mid and no days_to_expiry column): an
\* under-priced XYZ call, an under-priced ABC put, and an XYZ call whose
\* expiration is not a date
CheapCall(d) == Row(d, "XYZ", "call", 100, d + 30, 200, 100, Absent)
CheapPut(d)  == Row(d, "ABC", "put", 100, d + 30, 200, 100, Absent)
BadRow(d)    == Row(d, "XYZ", "call", 100, BadDate, 200, 100, Absent)

\* the rows a file may hold for one date, in file order
DayRows(d) ==
  {<<>>, <<CheapCall(d)>>, <<CheapPut(d)>>, <<BadRow(d)>>,
   <<CheapCall(d), CheapPut(d)>>, <<CheapCall(d), BadRow(d)>>}

RECURSIVE FilesUpTo(_)
\* the files with rows for the dates 1..n
FilesUpTo(n) ==
  IF n = 0 THEN {<<>>}
  ELSE {f \o day : f \in FilesUpTo(n - 1), day \in DayRows(n)}

Files == FilesUpTo(MaxDate)

Config(syms, disc, minv, maxv, mind, maxd) ==
  [symbols |-> syms, min_price_discrepancy |-> disc,
   min_volatility |-> minv, max_volatility |-> maxv,
   min_days_to_expiration |-> mind, max_days_to_expiration |-> maxd]

\* BlackScholesArbitrage.__init__ defaults (lines 90-94)
DefaultConfig(syms) == Config(syms, 1000, 1000, 5000, 7, 45)

\* the configurations of the strategy object handed to the engine
EngineConfigs ==
  {DefaultConfig({"XYZ"}), DefaultConfig({}), Config({"XYZ"}, 1000, 1000, 5000, 45, 7)}

EmptyCache == [s \in Symbols |-> Absent]

\* what run_backtest may be given as its strategy: the BlackScholesArbitrage
\* object, or a name for _create_strategy
StrategyArgs == {"instance", "BlackScholesArbitrage", "MeanReversion"}

\* signals a native (C++) strategy may return
NativeSignal(t) ==
  [symbol |-> <<"XYZ", 31, "call", 10000>>, type |-> t, strength |-> 5000,
   target_price |-> 351, stop_loss |-> 1800, timestamp |-> 1,
   strategy_name |-> "BlackScholesArbitrage"]

\* what one call of a native strategy's execute may do
NativeOutcomes ==
  {[raised |-> FALSE, signals |-> <<>>],
   [raised |-> FALSE, signals |-> <<NativeSignal("BUY"), NativeSignal("HOLD")>>],
   [raised |-> TRUE, signals |-> <<>>]}

NoMetrics ==
  [num_trades |-> Absent, total_return |-> Absent, max_drawdown |-> Absent,
   avg_daily_return |-> Absent, volatility |-> Absent, sharpe_ratio |-> Absent]

VARIABLES
  use_cpp_bindings,      \* self.use_cpp_bindings
  data_loaded,           \* self.options_data is not None
  options_data,          \* self.options_data: the rows
  portfolio_value,       \* self.portfolio_value
  trades,                \* self.trades
  metrics,               \* self.metrics
  strategy_config,       \* the BlackScholesArbitrage object's parameters
  historical_volatility, \* the BlackScholesArbitrage object's cache
  init_result,           \* what strategy.initialize() returned, if called
  pc,                    \* "idle", "running", "completed", "failed"
  last_error,            \* the error the last call raised, or "none"
  run_strategy,          \* the strategy of the run: "python" or "native"
  run_data,              \* backtest_data of the run
  run_dates,             \* the dates the loop has still to process
  portfolio,             \* the run's portfolio
  last_call,             \* the arguments of the last run_backtest call
  execute_log,           \* the strategy.execute calls of the last run_backtest call
  opt_in,                \* the option row a caller hands to the strategy itself
  opt_out,               \* what the strategy did with that row
  bs_in,                 \* the arguments a caller hands to BlackScholesModel
  bs_out,                \* what the BlackScholesModel functions returned
  earlier                \* the result dict of an earlier run_backtest, if any

vars == <<use_cpp_bindings, data_loaded, options_data, portfolio_value, trades,
          metrics, strategy_config, historical_volatility, init_result, pc,
          last_error, run_strategy, run_data, run_dates, portfolio, last_call,
          execute_log, opt_in, opt_out, bs_in, bs_out, earlier>>

engine_vars == <<use_cpp_bindings, data_loaded, options_data, portfolio_value,
                 trades, metrics, pc, last_error, run_strategy, run_data,
                 run_dates, portfolio, last_call, execute_log>>

opt_vars == <<opt_in, opt_out>>

bs_vars == <<bs_in, bs_out>>

NoCall == [strategy |-> "none", start_date |-> Absent, end_date |-> Absent]

\* no earlier run_backtest call on this engine
NoEarlier == [call |-> NoCall]

NoPortfolio == [cash |-> 0, positions |-> <<>>, value_history |-> <<>>]

NoOption == Row(1, "XYZ", "nan", NaN, NaN, NaN, NaN, Absent)

NoOut == [called |-> FALSE, eligible |-> "none", theoretical_price |-> NaN,
          signals |-> <<>>, raised |-> FALSE]

\* a new engine object (BacktestEngine.__init__, lines 40-52)
NewEngine ==
  /\ data_loaded = FALSE
  /\ options_data = <<>>
  /\ portfolio_value = <<>>
  /\ trades = <<>>
  /\ metrics = NoMetrics
  /\ pc = "idle"
  /\ last_error = "none"
  /\ run_strategy = "none"
  /\ run_data = <<>>
  /\ run_dates = <<>>
  /\ portfolio = NoPortfolio
  /\ last_call = NoCall
  /\ execute_log = <<>>
  /\ earlier = NoEarlier

NoArgs == [S |-> NaN, K |-> NaN, r |-> NaN, sigma |-> NaN, days |-> NaN]

NoResult == [fn |-> "none"]

\* no caller has used BlackScholesModel directly
NoModelCall ==
  /\ bs_in = NoArgs
  /\ bs_out = NoResult

\* a new strategy object (BlackScholesArbitrage.__init__, lines 86-100)
NewStrategy(configs) ==
  /\ strategy_config \in configs
  /\ historical_volatility = EmptyCache
  /\ init_result = "not called"

Init ==
  /\ use_cpp_bindings \in BOOLEAN
  /\ NewEngine
  /\ NewStrategy(EngineConfigs)
  /\ opt_in = NoOption
  /\ opt_out = NoOut
  /\ NoModelCall

\* the caller asks the strategy object to validate its configuration
Initialize ==
  /\ pc = "idle"
  /\ init_result = "not called"
  /\ init_result' = (IF initialize(strategy_config) THEN "true" ELSE "false")
  /\ UNCHANGED <<engine_vars, strategy_config, historical_volatility, opt_vars, bs_vars, earlier>>

\* load_data with no path at all (line 73)
LoadDataNoPath ==
  /\ pc = "idle"
  /\ ~data_loaded
  /\ last_error' = "no data path"
  /\ UNCHANGED <<use_cpp_bindings, data_loaded, options_data, portfolio_value,
                 trades, metrics, strategy_config, historical_volatility,
                 init_result, pc, run_strategy, run_data, run_dates, portfolio,
                 last_call, execute_log, opt_vars, bs_vars, earlier>>

\* OptionsDataLoader.load_csv when pd.read_csv raises (data_loader.py lines
\* 47-72): the handler returns pd.DataFrame(columns=required_cols), but
\* required_cols is bound at line 51, after read_csv has returned, so the
\* handler itself raises UnboundLocalError before anything is assigned
load_csv_unreadable == [raised |-> TRUE, error |-> "UnboundLocalError"]

\* load_data on a path that cannot be read: what load_csv raises goes through
\* load_data (line 76), which assigns nothing
LoadDataUnreadable ==
  /\ pc = "idle"
  /\ ~data_loaded
  /\ load_csv_unreadable.raised
  /\ last_error' = load_csv_unreadable.error
  /\ UNCHANGED <<use_cpp_bindings, data_loaded, options_data, portfolio_value,
                 trades, metrics, strategy_config, historical_volatility,
                 init_result, pc, run_strategy, run_data, run_dates, portfolio,
                 last_call, execute_log, opt_vars, bs_vars, earlier>>

\* load_data: options_data is assigned before the emptiness check (lines 76-79)
LoadData(file) ==
  /\ pc = "idle"
  /\ ~data_loaded
  /\ data_loaded' = TRUE
  /\ options_data' = file
  /\ last_error' = (IF file = <<>> THEN "failed to load" ELSE "none")
  /\ UNCHANGED <<use_cpp_bindings, portfolio_value, trades, metrics,
                 strategy_config, historical_volatility, init_result, pc,
                 run_strategy, run_data, run_dates, portfolio, last_call,
                 execute_log, opt_vars, bs_vars, earlier>>

\* self.options_data['date'].min() / .max(): NaN on an empty frame
MinDate(data) ==
  IF data = <<>> THEN NaN
  ELSE CHOOSE d \in {data[i].date : i \in 1..Len(data)} :
         \A i \in 1..Len(data) : d <= data[i].date

MaxDateOf(data) ==
  IF data = <<>> THEN NaN
  ELSE CHOOSE d \in {data[i].date : i \in 1..Len(data)} :
         \A i \in 1..Len(data) : d >= data[i].date

\* the mask with the end date excluded
InWindow_OpenEnd(date, start_date, end_date) ==
  Ge(date, start_date) /\ Lt(date, end_date)

\* the mask of lines 135-136: start_date <= date <= end_date
InWindow(date, start_date, end_date) == Ge(date, start_date) /\ Le(date, end_date)

\* backtest_data (lines 124-136); None (Absent) defaults to the data's first / last date
BacktestData(data, start_arg, end_arg) ==
  LET start_date == IF start_arg = Absent THEN MinDate(data) ELSE start_arg
      end_date   == IF end_arg = Absent THEN MaxDateOf(data) ELSE end_arg
  IN SelectSeq(data, LAMBDA row : InWindow(row.date, start_date, end_date))

\* the modules importlib can find under thales_backtester.strategies
StrategyModules == {"black_scholes_arbitrage"}

\* the strategy classes that module defines
ModuleAttributes == {"BlackScholesArbitrage"}

\* strategy_name.lower()
LowerName(name) ==
  CASE name = "BlackScholesArbitrage" -> "blackscholesarbitrage"
    [] name = "MeanReversion" -> "meanreversion"
    [] OTHER -> name

\* _create_strategy without the ValueError for a name that is not known
_create_strategy_AnyName(cpp, strategy_name) ==
  IF cpp THEN "native" ELSE "python"

\* _create_strategy: the kind of strategy made, or "raise" (ValueError); the
\* Python branch needs the module named strategy_name.lower() and, in it, the
\* attribute strategy_name
_create_strategy(cpp, strategy_name) ==
  IF cpp
    THEN IF strategy_name = "BlackScholesArbitrage" THEN "native" ELSE "raise"
  ELSE IF /\ LowerName(strategy_name) \in StrategyModules
          /\ strategy_name \in ModuleAttributes THEN "python"
  ELSE "raise"

\* _initialize_portfolio: a native Portfolio() is taken to start like the Python
\* one, with the initial capital as cash and no position
_initialize_portfolio(cpp) ==
  [cash |-> initial_capital, positions |-> <<>>, value_history |-> <<>>]

\* sorted(backtest_data['date'].unique())
UniqueDates(data) == SortedSeq({data[i].date : i \in 1..Len(data)})

\* the lists emptied in place: the engine's attributes stay bound to them
ResetTracking_InPlace(history, log) ==
  [portfolio_value |-> <<>>, trades |-> <<>>, rebound |-> FALSE]

\* the performance tracking without the reset: the lists of the engine go on
ResetTracking_Keep(history, log) ==
  [portfolio_value |-> history, trades |-> log, rebound |-> FALSE]

\* self.portfolio_value = [] and self.trades = [] (lines 218-219): the engine's
\* attributes are bound to new lists, whatever the old ones held
ResetTracking(history, log) ==
  [portfolio_value |-> <<>>, trades |-> <<>>, rebound |-> TRUE]

\* run_backtest up to the day loop (lines 120-154)
run_backtest(strategy, start_arg, end_arg) ==
  LET backtest_data == BacktestData(options_data, start_arg, end_arg)
      kind == IF strategy = "instance" THEN "python"
              ELSE _create_strategy(use_cpp_bindings, strategy)
      error == IF ~data_loaded THEN "no data loaded"
               ELSE IF backtest_data = <<>> THEN "no data in window"
               ELSE IF kind = "raise" THEN "strategy not found"
               ELSE "none"
  IN /\ last_call' = [strategy |-> strategy, start_date |-> start_arg,
                      end_date |-> end_arg]
     /\ execute_log' = <<>>
     /\ last_error' = error
     /\ IF error # "none"
          THEN /\ pc' = "failed"
               /\ UNCHANGED <<portfolio_value, trades, portfolio, run_strategy,
                              run_data, run_dates>>
          ELSE /\ pc' = "running"
               /\ portfolio' = _initialize_portfolio(use_cpp_bindings)
               /\ portfolio_value' = ResetTracking(portfolio_value, trades).portfolio_value
               /\ trades' = ResetTracking(portfolio_value, trades).trades
               /\ run_strategy' = kind
               /\ run_data' = backtest_data
               /\ run_dates' = UniqueDates(backtest_data)
     /\ UNCHANGED <<use_cpp_bindings, data_loaded, options_data, metrics,
                    strategy_config, historical_volatility, init_result, opt_vars, bs_vars>>

\* the first run_backtest call on an engine object
RunBacktest(strategy, start_arg, end_arg) ==
  /\ pc = "idle"
  /\ run_backtest(strategy, start_arg, end_arg)
  /\ UNCHANGED earlier

\* a second run_backtest call on the engine, after the first has returned or
\* raised. The caller keeps what the first run left: its result dict holds the
\* engine's own lists (lines 167-168), which stay shared with the engine until
\* its attributes are bound to new lists
RunBacktestAgain(strategy, start_arg, end_arg) ==
  /\ pc \in {"completed", "failed"}
  /\ earlier = NoEarlier
  /\ run_backtest(strategy, start_arg, end_arg)
  /\ earlier' = [call |-> last_call, pc |-> pc, portfolio_history |-> portfolio_value,
                 trades |-> trades, metrics |-> metrics,
                 shared |-> ~(pc' = "running"
                              /\ ResetTracking(portfolio_value, trades).rebound)]

\* _process_signal that records no trade for a HOLD signal
_process_signal_SkipHold(signal, date, log) ==
  IF signal.type = "HOLD" THEN log
  ELSE Append(log, [date |-> date, symbol |-> signal.symbol, type |-> signal.type,
                    strength |-> signal.strength, target_price |-> signal.target_price,
                    stop_loss |-> signal.stop_loss])

\* _process_signal: the trade log after the signal's record is appended
_process_signal(signal, date, log) ==
  Append(log, [date |-> date, symbol |-> signal.symbol, type |-> signal.type,
               strength |-> signal.strength, target_price |-> signal.target_price,
               stop_loss |-> signal.stop_loss])

RECURSIVE ProcessSignals(_, _, _)
\* for signal in signals: self._process_signal(...)
ProcessSignals(signals, date, log) ==
  IF signals = <<>> THEN log
  ELSE ProcessSignals(Tail(signals), date, _process_signal(Head(signals), date, log))

\* sum(portfolio['positions'].values())
PositionsSum(p) == SumSeq([i \in 1..Len(p.positions) |-> p.positions[i].value])

\* a valuation that charges a dollar for every trade logged
_calculate_portfolio_value_Charged(cpp, p, log) ==
  IF cpp THEN initial_capital + Len(log) * 100
  ELSE p.cash + PositionsSum(p) - Len(log)

\* lines 297-306
_calculate_portfolio_value(cpp, p, log) ==
  IF cpp THEN initial_capital + Len(log) * 100
  ELSE p.cash + PositionsSum(p)

\* strategy.execute(day_data, portfolio) for the BlackScholesArbitrage object; on
\* the native path it is handed a list, and market_data.empty raises
PythonExecute(day_data) ==
  IF use_cpp_bindings
    THEN [signals |-> <<>>, hv |-> historical_volatility, raised |-> TRUE,
          portfolio |-> portfolio]
  ELSE execute(strategy_config, historical_volatility, day_data, portfolio)

\* _process_day for the first of the remaining dates; out is what execute did
ProcessDayWith(out) ==
  LET date == Head(run_dates)
      new_trades == ProcessSignals(out.signals, date, trades)
      value == _calculate_portfolio_value(use_cpp_bindings, out.portfolio, new_trades)
      entry == [date |-> date, history_len |-> Len(portfolio_value),
                trades_len |-> Len(trades), signals |-> out.signals,
                raised |-> out.raised, portfolio_before |-> portfolio,
                portfolio_after |-> out.portfolio]
  IN /\ execute_log' = Append(execute_log, entry)
     /\ historical_volatility' = out.hv
     /\ portfolio' = out.portfolio
     /\ IF out.raised
          THEN /\ pc' = "failed"
               /\ last_error' = "day error"
               /\ UNCHANGED <<portfolio_value, trades, run_dates>>
          ELSE /\ trades' = new_trades
               /\ portfolio_value' =
                    Append(portfolio_value, [date |-> date, value |-> value])
               /\ run_dates' = Tail(run_dates)
               /\ UNCHANGED <<pc, last_error>>
     /\ earlier' = IF earlier # NoEarlier /\ earlier.shared /\ ~out.raised
                      THEN [earlier EXCEPT
                              !.portfolio_history =
                                Append(portfolio_value, [date |-> date, value |-> value]),
                              !.trades = new_trades]
                    ELSE earlier
     /\ UNCHANGED <<use_cpp_bindings, data_loaded, options_data, metrics,
                    strategy_config, init_result, run_strategy, run_data, last_call,
                    opt_vars, bs_vars>>

\* the whole window handed to the strategy on every day
DayData_WholeWindow == run_data

\* data[data['date'] == date] (line 226)
DayData == SelectSeq(run_data, LAMBDA row : row.date = Head(run_dates))

ProcessDayPython ==
  /\ pc = "running"
  /\ run_dates # <<>>
  /\ run_strategy = "python"
  /\ ProcessDayWith(PythonExecute(DayData))

ProcessDayNative ==
  /\ pc = "running"
  /\ run_dates # <<>>
  /\ run_strategy = "native"
  /\ \E o \in NativeOutcomes :
       ProcessDayWith([signals |-> o.signals, hv |-> historical_volatility,
                       raised |-> o.raised, portfolio |-> portfolio])

\* a running maximum that stays at the first value
CumMax_First(values, i) == values[1]

RECURSIVE CumMax(_, _)
\* portfolio_series.cummax() at position i
CumMax(values, i) ==
  IF i = 1 THEN values[1] ELSE Max(values[i], CumMax(values, i - 1))

\* portfolio_series.pct_change().dropna() (line 319), in 1e-4
PctChange(values) ==
  [i \in 1..(Len(values) - 1) |-> (values[i + 1] * 10000) \div values[i] - 10000]

\* Series.mean(): NaN when there is no return
MeanReturn(returns) ==
  IF returns = <<>> THEN NaN ELSE SumSeq(returns) \div Len(returns)

\* a standard deviation that divides by the number of returns
StdReturn_Population(returns) ==
  IF Len(returns) < 1 THEN NaN
  ELSE LET mean == MeanReturn(returns)
           sq   == [i \in 1..Len(returns) |-> (returns[i] - mean) * (returns[i] - mean)]
       IN Isqrt(SumSeq(sq) \div Len(returns))

\* Series.std(): the sample standard deviation (ddof = 1), NaN for fewer than
\* two returns
StdReturn(returns) ==
  IF Len(returns) < 2 THEN NaN
  ELSE LET mean == MeanReturn(returns)
           sq   == [i \in 1..Len(returns) |-> (returns[i] - mean) * (returns[i] - mean)]
       IN Isqrt(SumSeq(sq) \div (Len(returns) - 1))

\* sqrt(252) in 1e-2
Sqrt252 == Isqrt(252 * 10000)

\* the quotient without the test of the deviation
SharpeRatio_Unguarded(returns) ==
  LET std == StdReturn(returns)
  IN IF IsNaN(std) \/ std = 0 THEN NaN
     ELSE (MeanReturn(returns) * Sqrt252) \div std

\* line 326, in 1e-2: a NaN deviation is not > 0 and takes the else branch
SharpeRatio(returns) ==
  LET std == StdReturn(returns)
  IN IF ~IsNaN(std) /\ std > 0
       THEN (MeanReturn(returns) * Sqrt252) \div std
       ELSE 0

\* _calculate_metrics: total_return, avg_daily_return, volatility and
\* max_drawdown in 1e-2 percent, sharpe_ratio in 1e-2
_calculate_metrics(history, log, old) ==
  LET values  == [i \in 1..Len(history) |-> history[i].value]
      returns == PctChange(values)
      dd(i)   == (values[i] * 10000) \div CumMax(values, i) - 10000
  IN IF history = <<>> THEN old
     ELSE [num_trades   |-> Len(log),
           avg_daily_return |-> MeanReturn(returns),
           volatility   |-> StdReturn(returns),
           sharpe_ratio |-> SharpeRatio(returns),
           total_return |-> (values[Len(values)] * 10000) \div values[1] - 10000,
           max_drawdown |-> CHOOSE m \in {dd(i) : i \in 1..Len(values)} :
                              \A i \in 1..Len(values) : m <= dd(i)]

\* the end of run_backtest (lines 160-171)
FinishRun ==
  /\ pc = "running"
  /\ run_dates = <<>>
  /\ metrics' = _calculate_metrics(portfolio_value, trades, metrics)
  /\ pc' = "completed"
  /\ UNCHANGED <<use_cpp_bindings, data_loaded, options_data, portfolio_value,
                 trades, strategy_config, historical_volatility, init_result,
                 last_error, run_strategy, run_data, run_dates, portfolio,
                 last_call, execute_log, opt_vars, bs_vars, earlier>>

Next ==
  \/ Initialize
  \/ LoadDataNoPath
  \/ LoadDataUnreadable
  \/ \E file \in Files : LoadData(file)
  \/ \E strategy \in StrategyArgs, start_arg \in Dates \cup {Absent},
        end_arg \in Dates \cup {Absent} : RunBacktest(strategy, start_arg, end_arg)
  \/ ProcessDayPython
  \/ ProcessDayNative
  \/ FinishRun

Spec == Init /\ [][Next]_vars

\* the number of dates of the data of an engine that is run twice
MaxRerunDate == 2

\* an engine object with its data loaded and a new strategy object
InitRerun ==
  /\ use_cpp_bindings \in BOOLEAN
  /\ data_loaded = TRUE
  /\ options_data \in FilesUpTo(MaxRerunDate) \ {<<>>}
  /\ portfolio_value = <<>>
  /\ trades = <<>>
  /\ metrics = NoMetrics
  /\ pc = "idle"
  /\ last_error = "none"
  /\ run_strategy = "none"
  /\ run_data = <<>>
  /\ run_dates = <<>>
  /\ portfolio = NoPortfolio
  /\ last_call = NoCall
  /\ execute_log = <<>>
  /\ earlier = NoEarlier
  /\ NewStrategy(EngineConfigs)
  /\ opt_in = NoOption
  /\ opt_out = NoOut
  /\ NoModelCall

\* the engine through two calls of run_backtest (SpecRerun)
NextRerun ==
  \/ \E strategy \in StrategyArgs, start_arg \in (1..MaxRerunDate) \cup {Absent},
        end_arg \in (1..MaxRerunDate) \cup {Absent} :
        \/ RunBacktest(strategy, start_arg, end_arg)
        \/ RunBacktestAgain(strategy, start_arg, end_arg)
  \/ ProcessDayPython
  \/ ProcessDayNative
  \/ FinishRun

SpecRerun == InitRerun /\ [][NextRerun]_vars

(***************************************************************************)
(* The strategy object on its own: a caller builds a BlackScholesArbitrage *)
(* and calls initialize() on it (SpecConfig), or calls execute() on it     *)
(* directly with frames of its own (SpecOption).                           *)
(***************************************************************************)

\* the configurations initialize() is tried on
ConfigSpace ==
  {Config(syms, disc, minv, maxv, mind, maxd) :
     syms \in {{}, {"XYZ"}}, disc \in {-1, 0, 1000}, minv \in {-1, 0, 1000},
     maxv \in {0, 500, 5000}, mind \in {0, 7, 50}, maxd \in {-1, 0, 45}}

InitConfig ==
  /\ use_cpp_bindings = FALSE
  /\ NewEngine
  /\ NewStrategy(ConfigSpace)
  /\ opt_in = NoOption
  /\ opt_out = NoOut
  /\ NoModelCall

NextConfig == Initialize

SpecConfig == InitConfig /\ [][NextConfig]_vars

\* underlying prices of consecutive dates that a caller's frame may show
PriceHistories ==
  {<<100, 102>>, <<NaN, 100>>, <<100, 102, 102>>, <<100, 102, 100>>}

\* a frame with one option row per date (its mid is 0) and these underlying prices
HistoryFrame(prices) ==
  [k \in 1..Len(prices) |-> Row(k, "XYZ", "call", 100, k + 30, 0, prices[k], Absent)]

VolLow  == AnnualizedVol(<<100, 102, 102>>)
VolHigh == AnnualizedVol(<<100, 102, 100>>)

\* the theoretical price of the 30-day at-the-money call at the default volatility
FairCall == call_price(100, 100, RiskFreeRate, DefaultVolatility, 30)

\* the configurations execute() is tried with: the default, no symbol filter, a
\* volatility window that ends at the estimates, one that excludes the higher
\* estimate, a 100% threshold, and one with zero bounds
OptionConfigs ==
  {DefaultConfig({"XYZ"}),
   DefaultConfig({}),
   Config({"XYZ"}, 1000, VolLow, VolHigh, 7, 45),
   Config({"XYZ"}, 1000, 1000, VolHigh - 1, 7, 45),
   Config({"XYZ"}, 10000, 1000, 5000, 7, 45),
   Config({"XYZ"}, 0, 0, 5000, 0, 45)}

OptionTypes == {"call", "put", "CALL", "straddle", "nan"}

\* the option rows: a days_to_expiry column, when the frame has one, holds
\* expiration - date (data_loader.py line 116)
Options ==
  {Row(1, s, t, k, e, m, u, dte) :
     s \in Symbols, t \in OptionTypes, k \in {100, NaN},
     e \in {7, 8, 31, 46, 47, NaN, BadDate},
     m \in {NaN, 0, 200, FairCall, 2 * FairCall}, u \in {100, NaN},
     dte \in {Absent}}
  \cup
  {Row(1, s, t, k, 31, m, u, 30) :
     s \in Symbols, t \in OptionTypes, k \in {100, NaN},
     m \in {NaN, 0, 200, FairCall, 2 * FairCall}, u \in {100, NaN}}

InitOption ==
  /\ use_cpp_bindings = FALSE
  /\ NewEngine
  /\ NewStrategy(OptionConfigs)
  /\ opt_in \in Options
  /\ opt_out = NoOut
  /\ NoModelCall

\* the caller calls execute on a frame of several dates: the cache is refreshed
ExecuteHistory(prices) ==
  /\ ~opt_out.called
  /\ historical_volatility' =
       execute(strategy_config, historical_volatility, HistoryFrame(prices),
               _initialize_portfolio(FALSE)).hv
  /\ UNCHANGED <<engine_vars, strategy_config, init_result, opt_vars, bs_vars, earlier>>

\* the verdict of the eligibility filter on a row: "true", "false" or "raise"
Verdict(option, cfg, hv) ==
  IF EligibleRaises(option) THEN "raise"
  ELSE IF _is_option_eligible(option, cfg, hv) THEN "true"
  ELSE "false"

\* what the caller sees of the call: the filter's verdict on the row, the
\* theoretical price of an accepted row, the signals and the refreshed cache
RecordOption(out, verdict, theoretical_price) ==
  /\ opt_out' = [called |-> TRUE,
                 eligible |-> verdict,
                 theoretical_price |->
                   IF verdict = "true" THEN theoretical_price ELSE NaN,
                 signals |-> out.signals,
                 raised |-> out.raised]
  /\ historical_volatility' = out.hv
  /\ UNCHANGED <<engine_vars, strategy_config, init_result, opt_in, bs_vars, earlier>>

\* the caller calls execute on a frame that holds the one row opt_in
ExecuteOption ==
  /\ ~opt_out.called
  /\ RecordOption(execute(strategy_config, historical_volatility, <<opt_in>>,
                          _initialize_portfolio(FALSE)),
                  Verdict(opt_in, strategy_config, historical_volatility),
                  _calculate_theoretical_price(opt_in, historical_volatility))

NextOption ==
  \/ \E prices \in PriceHistories : ExecuteHistory(prices)
  \/ ExecuteOption

SpecOption == InitOption /\ [][NextOption]_vars

(***************************************************************************)
(* BlackScholesModel on its own: a caller hands arguments to the static     *)
(* functions (SpecModel).                                                   *)
(***************************************************************************)

\* the arguments: spot and strike in dollars, rate and volatility in basis
\* points, the time to expiry in days (T = days / 365)
ModelArgs ==
  [S : {90, 100, 110}, K : {100, 105}, r : {0, 200, 500},
   sigma : {-1000, 0, 2000, 3000}, days : {-30, 0, 30, 365}]

InitModel ==
  /\ use_cpp_bindings = FALSE
  /\ NewEngine
  /\ NewStrategy({DefaultConfig({"XYZ"})})
  /\ opt_in = NoOption
  /\ opt_out = NoOut
  /\ bs_in \in ModelArgs
  /\ bs_out = NoResult

\* the caller asks for the prices and the deltas
Prices ==
  /\ bs_out = NoResult
  /\ bs_out' = [fn |-> "prices",
                call_price |-> call_price(bs_in.S, bs_in.K, bs_in.r, bs_in.sigma, bs_in.days),
                put_price  |-> put_price(bs_in.S, bs_in.K, bs_in.r, bs_in.sigma, bs_in.days),
                call_delta |-> call_delta(bs_in.S, bs_in.K, bs_in.r, bs_in.sigma, bs_in.days),
                put_delta  |-> put_delta(bs_in.S, bs_in.K, bs_in.r, bs_in.sigma, bs_in.days)]
  /\ UNCHANGED <<engine_vars, strategy_config, historical_volatility, init_result,
                 opt_vars, bs_in, earlier>>

\* the caller asks for the other Greeks
Greeks ==
  /\ bs_out = NoResult
  /\ bs_out' = [fn |-> "greeks",
                gamma      |-> gamma(bs_in.S, bs_in.K, bs_in.r, bs_in.sigma, bs_in.days),
                vega       |-> vega(bs_in.S, bs_in.K, bs_in.r, bs_in.sigma, bs_in.days),
                call_theta |-> call_theta(bs_in.S, bs_in.K, bs_in.r, bs_in.sigma, bs_in.days),
                put_theta  |-> put_theta(bs_in.S, bs_in.K, bs_in.r, bs_in.sigma, bs_in.days),
                call_rho   |-> call_rho(bs_in.S, bs_in.K, bs_in.r, bs_in.sigma, bs_in.days),
                put_rho    |-> put_rho(bs_in.S, bs_in.K, bs_in.r, bs_in.sigma, bs_in.days)]
  /\ UNCHANGED <<engine_vars, strategy_config, historical_volatility, init_result,
                 opt_vars, bs_in, earlier>>

\* the market prices a caller asks an implied volatility for, in 1e-4 dollars:
\* non-positive ones, one below and one at the arbitrage floor, the model's
\* values at 0.1%, 20% and 25% volatility, one cent, and 200 dollars
TargetPrices(kind, a) ==
  {-10000, 0, 100, 2000000,
   intrinsic_value(kind, a.S, a.K, a.r, a.days) - 1,
   intrinsic_value(kind, a.S, a.K, a.r, a.days),
   ModelValue(kind, a.S, a.K, a.r, MinSigma, a.days),
   ModelValue(kind, a.S, a.K, a.r, InitialSigma, a.days),
   ModelValue(kind, a.S, a.K, a.r, 2500, a.days)}

\* the caller calls call_implied_volatility or put_implied_volatility; they
\* take no sigma, so one sigma of the arguments stands for all
ImpliedVolatilityCall(kind, price, epsilon, max_iterations) ==
  /\ bs_out = NoResult
  /\ bs_in.sigma = InitialSigma
  /\ bs_out' = implied_volatility(kind, price, bs_in.S, bs_in.K, bs_in.r, bs_in.days,
                                  epsilon, max_iterations)
  /\ UNCHANGED <<engine_vars, strategy_config, historical_volatility, init_result,
                 opt_vars, bs_in, earlier>>

\* one iteration of the search
ImpliedVolatilityStep ==
  /\ bs_out.fn = "iv"
  /\ bs_out.pc = "loop"
  /\ bs_out' = Iteration(bs_out, bs_in.S, bs_in.K, bs_in.r, bs_in.days)
  /\ UNCHANGED <<engine_vars, strategy_config, historical_volatility, init_result,
                 opt_vars, bs_in, earlier>>

NextModel ==
  \/ Prices
  \/ Greeks
  \/ \E kind \in {"call", "put"}, epsilon \in {DefaultEpsilon, 100},
        max_iterations \in {0, 3, DefaultMaxIterations} :
        \E price \in TargetPrices(kind, bs_in) :
          ImpliedVolatilityCall(kind, price, epsilon, max_iterations)
  \/ ImpliedVolatilityStep

SpecModel == InitModel /\ [][NextModel]_vars

(***************************************************************************)
(* _calculate_metrics on value histories, checked under SpecMetrics          *)
(***************************************************************************)

\* the longest value history handed to _calculate_metrics
MaxHistory == 5

HistoryValues == {90, 100, 120, 150}

RECURSIVE HistoriesOf(_)
\* the value histories of length n, dated 1..n
HistoriesOf(n) ==
  IF n = 0 THEN {<<>>}
  ELSE {Append(h, [date |-> n, value |-> v]) : h \in HistoriesOf(n - 1),
                                               v \in HistoryValues}

\* a run at the end of its day loop, with any value history
InitMetrics ==
  /\ use_cpp_bindings \in BOOLEAN
  /\ data_loaded = TRUE
  /\ options_data = <<>>
  /\ \E n \in 0..MaxHistory : portfolio_value \in HistoriesOf(n)
  /\ trades = <<>>
  /\ metrics = NoMetrics
  /\ pc = "running"
  /\ last_error = "none"
  /\ run_strategy = "none"
  /\ run_data = <<>>
  /\ run_dates = <<>>
  /\ portfolio = NoPortfolio
  /\ last_call = NoCall
  /\ execute_log = <<>>
  /\ earlier = NoEarlier
  /\ NewStrategy({DefaultConfig({"XYZ"})})
  /\ opt_in = NoOption
  /\ opt_out = NoOut
  /\ NoModelCall

NextMetrics == FinishRun

SpecMetrics == InitMetrics /\ [][NextMetrics]_vars

(***************************************************************************)
(* Properties of the engine, checked under Spec                            *)
(***************************************************************************)

\* the dates of the loaded rows
DataDates == {options_data[i].date : i \in 1..Len(options_data)}

\* the window the last call asked for; None stands for the first / last date
CallStart ==
  IF last_call.start_date = Absent THEN MinDate(options_data) ELSE last_call.start_date
CallEnd ==
  IF last_call.end_date = Absent THEN MaxDateOf(options_data) ELSE last_call.end_date

\* the distinct snapshot dates d with start <= d <= end
WindowDates == {d \in DataDates : CallStart <= d /\ d <= CallEnd}

\* the last call ran the day loop to its end, or stopped in it
InDayLoop == pc \in {"running", "completed"} \/ (pc = "failed" /\ last_error = "day error")

\* C1: a strategy object whose configuration initialize() rejects is never
\* executed: the run makes no execute call and does not complete.
C1_RejectedStrategyNeverExecuted ==
  (last_call.strategy = "instance" /\ ~initialize(strategy_config))
    => (execute_log = <<>> /\ pc # "completed")

\* C2: a completed run has one history entry per distinct snapshot date of the
\* window (both ends included), in ascending order; and the i-th execute call
\* is made when exactly i-1 values have been appended, for the i-th date.
C2_OneEntryPerDateInOrder ==
  /\ pc = "completed" =>
       /\ Len(portfolio_value) = Cardinality(WindowDates)
       /\ {portfolio_value[i].date : i \in 1..Len(portfolio_value)} = WindowDates
       /\ \A i \in 1..(Len(portfolio_value) - 1) :
            portfolio_value[i].date < portfolio_value[i + 1].date
  /\ \A i \in 1..Len(execute_log) :
       /\ execute_log[i].history_len = i - 1
       /\ i <= Len(portfolio_value) => portfolio_value[i].date = execute_log[i].date

C2_Witness ==
  /\ pc = "completed"
  /\ Len(portfolio_value) = MaxDate
  /\ Len(execute_log) = MaxDate
  /\ last_call.start_date = 1
  /\ last_call.end_date = MaxDate

RECURSIVE SignalsAsTrades(_, _)
\* the records the signals returned by the first n execute calls stand for
SignalsAsTrades(log, n) ==
  IF n = 0 THEN <<>>
  ELSE SignalsAsTrades(log, n - 1) \o
       [k \in 1..Len(log[n].signals) |->
          [date         |-> log[n].date,
           symbol       |-> log[n].signals[k].symbol,
           type         |-> log[n].signals[k].type,
           strength     |-> log[n].signals[k].strength,
           target_price |-> log[n].signals[k].target_price,
           stop_loss    |-> log[n].signals[k].stop_loss]]

\* C3: the trade log is, call by call and signal by signal, the signals that
\* execute returned, each with the date of its day; after completion num_trades
\* is the length of the log.
C3_OneTradePerSignal ==
  /\ InDayLoop => trades = SignalsAsTrades(execute_log, Len(execute_log))
  /\ pc = "completed" => metrics.num_trades = Len(trades)

C3_Witness ==
  /\ pc = "completed"
  /\ Len(trades) >= 3
  /\ \E i \in 1..Len(trades) : trades[i].type = "HOLD"
  /\ \E i, j \in 1..Len(trades) : trades[i].date # trades[j].date

\* C4: after a day raised, the engine holds no history entry, no trade and no
\* metrics of the aborted run.
C4_NoPartialResults ==
  (pc = "failed" /\ last_error = "day error")
    => (portfolio_value = <<>> /\ trades = <<>> /\ metrics = NoMetrics)

\* the last call asked for something that must fail before the simulation
MustFailEarly ==
  \/ ~data_loaded
  \/ options_data = <<>>
  \/ WindowDates = {}
  \/ last_call.strategy = "MeanReversion"

\* C5: no data, an empty data set, an empty window or an unknown strategy name
\* fail the call before the day loop: no execute call, no history entry, no trade.
C5_EarlyFailures ==
  (last_call # NoCall /\ MustFailEarly)
    => /\ pc = "failed"
       /\ last_error \in {"no data loaded", "no data in window", "strategy not found"}
       /\ execute_log = <<>>
       /\ portfolio_value = <<>>
       /\ trades = <<>>

C5_Witness ==
  /\ last_call.strategy = "MeanReversion"
  /\ data_loaded
  /\ WindowDates # {}
  /\ pc = "failed"
  /\ last_error = "strategy not found"

\* C6: no execute call of the BlackScholesArbitrage object changes the portfolio
\* it is handed, and the run's portfolio stays what _initialize_portfolio made.
C6_ExecuteLeavesPortfolio ==
  (run_strategy = "python" /\ InDayLoop)
    => /\ \A i \in 1..Len(execute_log) :
            execute_log[i].portfolio_after = execute_log[i].portfolio_before
       /\ portfolio = _initialize_portfolio(use_cpp_bindings)

C6_Witness ==
  /\ run_strategy = "python"
  /\ pc = "completed"
  /\ \E i \in 1..Len(execute_log) : execute_log[i].signals # <<>>

\* C7: every recorded value is the portfolio's cash plus the value of the
\* positions it holds.
C7_ValueIsCashPlusPositions ==
  InDayLoop =>
    \A i \in 1..Len(portfolio_value) :
      portfolio_value[i].value = portfolio.cash + PositionsSum(portfolio)

(***************************************************************************)
(* Properties of the strategy object, checked under SpecConfig, SpecOption *)
(***************************************************************************)

\* the configuration has one of the faults initialize() is to report
ConfigFault(cfg) ==
  \/ cfg.symbols = {}
  \/ cfg.min_price_discrepancy <= 0
  \/ cfg.min_volatility <= 0
  \/ cfg.max_volatility <= 0
  \/ cfg.min_days_to_expiration <= 0
  \/ cfg.max_days_to_expiration <= 0
  \/ cfg.min_days_to_expiration > cfg.max_days_to_expiration

\* C8: initialize() returns false exactly for the configurations with a fault,
\* true for the others, and leaves the configuration as it was.
C8_InitializeVerdict ==
  [][init_result' # init_result =>
       /\ init_result' = (IF ConfigFault(strategy_config) THEN "false" ELSE "true")
       /\ strategy_config' = strategy_config]_vars

C8_Witness ==
  /\ init_result = "false"
  /\ strategy_config.symbols # {}
  /\ strategy_config.min_price_discrepancy > 0
  /\ strategy_config.min_volatility > 0
  /\ strategy_config.max_volatility > 0
  /\ strategy_config.min_days_to_expiration > strategy_config.max_days_to_expiration
  /\ strategy_config.max_days_to_expiration > 0

\* the row meets every condition the filter is to test
MeetsCriteria(option, cfg, hv) ==
  /\ option.option_type # "nan"
  /\ option.strike # NaN
  /\ option.expiration # NaN
  /\ option.date # NaN
  /\ option.mid # NaN
  /\ option.underlying_price # NaN
  /\ Lower(option.option_type) \in {"call", "put"}
  /\ option.expiration # BadDate
  /\ cfg.min_days_to_expiration <= option.expiration - option.date
  /\ option.expiration - option.date <= cfg.max_days_to_expiration
  /\ option.mid > 0
  /\ \/ hv[option.symbol] = Absent
     \/ /\ hv[option.symbol] # NaN
        /\ cfg.min_volatility <= hv[option.symbol]
        /\ hv[option.symbol] <= cfg.max_volatility

\* C9: the filter accepts a row exactly when it meets every criterion, and a
\* signal is emitted only for a row the filter accepts.
C9_FilterAcceptsExactly ==
  opt_out.called =>
    /\ opt_out.eligible = "true"
         <=> MeetsCriteria(opt_in, strategy_config, historical_volatility)
    /\ opt_out.signals # <<>> => opt_out.eligible = "true"

\* the symbol group of the row is not skipped by execute
SymbolProcessed(option, cfg) == cfg.symbols = {} \/ option.symbol \in cfg.symbols

\* |mid - theoretical| / theoretical >= threshold, the quotient by zero being inf
RatioAtLeast(mid, theoretical, threshold) ==
  \/ theoretical = 0 /\ mid # 0
  \/ theoretical > 0 /\ Abs(mid - theoretical) * 10000 >= threshold * theoretical

\* C10: an eligible row with a valid theoretical price gets exactly one signal
\* when the relative discrepancy reaches the threshold and none otherwise; the
\* signal is BUY when mid < theoretical and SELL otherwise, its target price is
\* the theoretical price and its stop loss mid x 0.9 (BUY) or mid x 1.1 (SELL).
C10_SignalRule ==
  ( /\ opt_out.called
    /\ SymbolProcessed(opt_in, strategy_config)
    /\ opt_out.eligible = "true"
    /\ ~IsNaN(opt_out.theoretical_price)
    /\ opt_out.theoretical_price >= 0 )
  => IF RatioAtLeast(opt_in.mid, opt_out.theoretical_price,
                     strategy_config.min_price_discrepancy)
       THEN /\ Len(opt_out.signals) = 1
            /\ opt_out.signals[1].type =
                 (IF opt_in.mid < opt_out.theoretical_price THEN "BUY" ELSE "SELL")
            /\ opt_out.signals[1].target_price = opt_out.theoretical_price
            /\ opt_out.signals[1].stop_loss =
                 (IF opt_in.mid < opt_out.theoretical_price
                    THEN opt_in.mid * 9 ELSE opt_in.mid * 11)
       ELSE opt_out.signals = <<>>

\* a signal at exactly the threshold, sold
C10_Witness ==
  /\ opt_out.called
  /\ opt_out.eligible = "true"
  /\ Len(opt_out.signals) = 1
  /\ opt_out.signals[1].type = "SELL"
  /\ opt_out.theoretical_price > 0
  /\ Abs(opt_in.mid - opt_out.theoretical_price) * 10000
       = strategy_config.min_price_discrepancy * opt_out.theoretical_price

\* the quotient a / theoretical exceeds 1 (or is inf)
RatioAboveOne(a, theoretical) == a > theoretical \/ (theoretical = 0 /\ a > 0)

\* C11: every signal execute emits has a strength between 0 and 1 (0 to 10000
\* basis points), whatever the configuration and the snapshot.
C11_StrengthInUnitInterval ==
  \A i \in 1..Len(opt_out.signals) :
    /\ 0 <= opt_out.signals[i].strength
    /\ opt_out.signals[i].strength <= 10000

\* a signal whose discrepancy is more than the whole theoretical price
C11_Witness ==
  /\ opt_out.called
  /\ Len(opt_out.signals) = 1
  /\ opt_out.theoretical_price > 0
  /\ RatioAboveOne(opt_in.mid - opt_out.theoretical_price, opt_out.theoretical_price)
  /\ opt_out.signals[1].strength = 10000

\* C12: no signal refers to an underlying symbol outside the configured set, and
\* the volatility cache has no entry for such a symbol, the empty set included.
C12_OnlyConfiguredSymbols ==
  /\ \A i \in 1..Len(opt_out.signals) :
       opt_out.signals[i].symbol[1] \in strategy_config.symbols
  /\ \A s \in Symbols :
       historical_volatility[s] # Absent => s \in strategy_config.symbols

\* the estimates a refresh can write from a frame of two or more dates
FreshEstimates == {AnnualizedVol(prices) : prices \in PriceHistories}

\* the price of an accepted row at the volatility sigma
PriceAt(option, sigma) ==
  IF Lower(option.option_type) = "call"
    THEN call_price(option.underlying_price, option.strike, RiskFreeRate, sigma,
                    DaysToExpiry(option))
    ELSE put_price(option.underlying_price, option.strike, RiskFreeRate, sigma,
                   DaysToExpiry(option))

\* C13: a call of execute on a frame of one date leaves the cache as it was; a
\* call on a frame of two or more dates of a symbol replaces that symbol's entry
\* only; an entry once written is never removed; and a row whose symbol has no
\* entry is priced at the default volatility 0.30.
C13_CacheRefresh ==
  [][/\ opt_out'.called /\ ~opt_out.called
          => historical_volatility' = historical_volatility
     /\ historical_volatility' # historical_volatility
          => /\ historical_volatility'["XYZ"] \in FreshEstimates
             /\ historical_volatility'["ABC"] = historical_volatility["ABC"]
     /\ \A s \in Symbols :
          historical_volatility[s] # Absent => historical_volatility'[s] # Absent
     /\ ( /\ opt_out'.called /\ ~opt_out.called
          /\ opt_out'.eligible = "true"
          /\ historical_volatility[opt_in.symbol] = Absent )
          => opt_out'.theoretical_price = PriceAt(opt_in, DefaultVolatility)]_vars

\* a one-date call found an estimate in the cache and kept it
C13_Witness ==
  /\ opt_out.called
  /\ opt_out.eligible = "true"
  /\ opt_in.symbol = "XYZ"
  /\ historical_volatility["XYZ"] = VolHigh

(***************************************************************************)
(* Properties of BlackScholesModel, checked under SpecModel                *)
(***************************************************************************)

\* C14: at T <= 0 the call is worth max(0, S - K) and the put max(0, K - S)
\* (in cents), the call delta is 1 if S > K and 0 otherwise, the put delta is -1
\* if S < K and 0 otherwise, whatever r and sigma are.
C14_ExpiredPricesAndDeltas ==
  (bs_out.fn = "prices" /\ bs_in.days <= 0) =>
    /\ bs_out.call_price = 100 * (IF bs_in.S > bs_in.K THEN bs_in.S - bs_in.K ELSE 0)
    /\ bs_out.put_price = 100 * (IF bs_in.K > bs_in.S THEN bs_in.K - bs_in.S ELSE 0)
    /\ bs_out.call_delta = (IF bs_in.S > bs_in.K THEN 1000000 ELSE 0)
    /\ bs_out.put_delta = (IF bs_in.S < bs_in.K THEN -1000000 ELSE 0)

\* at the money at expiry: both deltas are 0
C14_Witness ==
  /\ bs_out.fn = "prices"
  /\ bs_in.days = 0
  /\ bs_in.S = bs_in.K
  /\ bs_out.call_delta = 0
  /\ bs_out.put_delta = 0

\* C15: gamma, vega, both thetas and both rhos are 0, not NaN, whenever T <= 0
\* or sigma <= 0.
C15_GreeksZeroAtEdges ==
  (bs_out.fn = "greeks" /\ (bs_in.days <= 0 \/ bs_in.sigma <= 0)) =>
    /\ bs_out.gamma = 0
    /\ bs_out.vega = 0
    /\ bs_out.call_theta = 0
    /\ bs_out.put_theta = 0
    /\ bs_out.call_rho = 0
    /\ bs_out.put_rho = 0

\* the search state is one of a call that has made no iteration and returned NaN
ReturnedAtOnce(q) == q.pc = "done" /\ q.i = 0 /\ q.result = NaN

\* C16: an implied-volatility call with T <= 0, or price <= 0, or a price below
\* the floor max(0, S - K e^{-rT}) (call) or max(0, K e^{-rT} - S) (put) returns
\* NaN at once, without any iteration.
C16_RejectedWithoutIteration ==
  bs_out.fn = "iv" =>
    LET floor == IF bs_out.kind = "call"
                   THEN bs_in.S * 10000 - DiscountedStrike(bs_in.K, bs_in.r, bs_in.days)
                   ELSE DiscountedStrike(bs_in.K, bs_in.r, bs_in.days) - bs_in.S * 10000
    IN (bs_in.days <= 0 \/ bs_out.price <= 0 \/ bs_out.price < floor)
         => ReturnedAtOnce(bs_out)

\* a positive price just below the floor, before expiry
C16_Witness ==
  /\ bs_out.fn = "iv"
  /\ bs_in.days > 0
  /\ bs_out.price > 0
  /\ bs_out.price = intrinsic_value(bs_out.kind, bs_in.S, bs_in.K, bs_in.r, bs_in.days) - 1
  /\ ReturnedAtOnce(bs_out)

\* the outcome recorded for a finished search is the one its last pass met
OutcomeHolds(q, a) ==
  LET price_diff == ModelValue(q.kind, a.S, a.K, a.r, q.sigma, a.days) - q.price
      vega_val == vega(a.S, a.K, a.r, q.sigma, a.days)
  IN CASE q.outcome = "success" ->
            q.result = q.sigma /\ Abs(price_diff) < q.epsilon
       [] q.outcome = "stalled" ->
            q.result = NaN /\ Abs(price_diff) >= q.epsilon /\ vega_val = 0
       [] q.outcome = "cap" ->
            q.result = NaN /\ NewtonStep(q.sigma, price_diff, vega_val) > MaxSigma
       [] q.outcome = "exhausted" ->
            q.result = NaN /\ q.i = Max(q.max_iterations, 0)
       [] q.outcome = "rejected" -> ReturnedAtOnce(q)
       [] OTHER -> FALSE

\* C17: the search makes at most max_iterations iterations, every step of it is
\* one more iteration, and it ends as a success (|price(sigma) - target| <
\* epsilon), stalled (vega 0), past the cap (sigma > 10) or with the budget
\* used up; every end but success returns NaN.
C17_SearchTerminates ==
  [][bs_out'.fn = "iv" =>
       /\ bs_out'.i <= Max(bs_out'.max_iterations, 0)
       /\ bs_out'.pc = "loop" => bs_out'.i < bs_out'.max_iterations
       /\ bs_out.fn = "iv" => bs_out'.i = bs_out.i + 1
       /\ bs_out'.pc = "done" => OutcomeHolds(bs_out', bs_in)]_vars

\* a search that used the whole default budget
C17_Witness ==
  /\ bs_out.fn = "iv"
  /\ bs_out.outcome = "exhausted"
  /\ bs_out.max_iterations = DefaultMaxIterations
  /\ bs_out.i = DefaultMaxIterations

\* C18 as stated: at the start of every iteration 0.001 < sigma <= 10, and a
\* value returned that is not NaN lies in (0.001, 10].
C18_SigmaInOpenInterval ==
  bs_out.fn = "iv" =>
    /\ bs_out.pc = "loop" => (MinSigma < bs_out.sigma /\ bs_out.sigma <= MaxSigma)
    /\ (bs_out.pc = "done" /\ bs_out.result # NaN)
         => (MinSigma < bs_out.result /\ bs_out.result <= MaxSigma)

\* C18 amended: at the start of every iteration 0.001 <= sigma <= 10, and a
\* value returned that is not NaN lies in [0.001, 10].
C18_SigmaInClosedInterval ==
  bs_out.fn = "iv" =>
    /\ bs_out.pc = "loop" => (MinSigma <= bs_out.sigma /\ bs_out.sigma <= MaxSigma)
    /\ (bs_out.pc = "done" /\ bs_out.result # NaN)
         => (MinSigma <= bs_out.result /\ bs_out.result <= MaxSigma)

\* the search returned the floor 0.001 itself
C18_Witness ==
  /\ bs_out.fn = "iv"
  /\ bs_out.outcome = "success"
  /\ bs_out.result = MinSigma
  /\ bs_out.i > 1

\* call value - put value - (S - K e^{-rT}), in 1e-4 dollars
ParityGap(a) ==
  CallValue(a.S, a.K, a.r, a.sigma, a.days) - PutValue(a.S, a.K, a.r, a.sigma, a.days)
    - (a.S * 10000 - DiscountedStrike(a.K, a.r, a.days))

\* C19: for T > 0 the call price minus the put price is S - K e^{-rT}, to
\* within the rounding of the arithmetic (2e-4 dollars on the values, one cent
\* on the prices in cents).
C19_PutCallParity ==
  (bs_out.fn = "prices" /\ bs_in.days > 0) =>
    /\ Abs(ParityGap(bs_in)) <= 2
    /\ Abs(bs_out.call_price - bs_out.put_price
             - ToCents(bs_in.S * 10000 - DiscountedStrike(bs_in.K, bs_in.r, bs_in.days))) <= 1

\* prices before expiry with a positive volatility and both options worth
\* more than a dollar
C19_Witness ==
  /\ bs_out.fn = "prices"
  /\ bs_in.days > 0
  /\ bs_in.sigma > 0
  /\ bs_in.r > 0
  /\ bs_out.call_price > 100
  /\ bs_out.put_price > 100
  /\ bs_in.S # bs_in.K

(***************************************************************************)
(* Properties of _calculate_metrics, checked under SpecMetrics              *)
(***************************************************************************)

\* every entry of the value history has the same value
Flat(history) == \A i, j \in 1..Len(history) : history[i].value = history[j].value

\* C20 as stated: a flat value history of two or more entries gives
\* total_return = 0, volatility = 0, max_drawdown = 0 and sharpe_ratio = 0.
C20_FlatHistoryFromTwo ==
  (pc = "completed" /\ Len(portfolio_value) >= 2 /\ Flat(portfolio_value)) =>
    /\ metrics.total_return = 0
    /\ metrics.volatility = 0
    /\ metrics.max_drawdown = 0
    /\ metrics.sharpe_ratio = 0

\* C20 amended: a flat value history of three or more entries gives
\* total_return = 0, volatility = 0, max_drawdown = 0 and sharpe_ratio = 0; one
\* of exactly two entries gives total_return = 0, max_drawdown = 0 and
\* sharpe_ratio = 0 with a volatility that is not a number.
C20_FlatHistoryFromThree ==
  (pc = "completed" /\ Len(portfolio_value) >= 2 /\ Flat(portfolio_value)) =>
    /\ metrics.total_return = 0
    /\ metrics.volatility = (IF Len(portfolio_value) >= 3 THEN 0 ELSE NaN)
    /\ metrics.max_drawdown = 0
    /\ metrics.sharpe_ratio = 0

\* the metrics of a flat history of five entries
C20_Witness ==
  /\ pc = "completed"
  /\ Len(portfolio_value) = 5
  /\ Flat(portfolio_value)
  /\ metrics.volatility = 0
  /\ metrics.sharpe_ratio = 0

\* the values of a history
ValuesOf(history) == [i \in 1..Len(history) |-> history[i].value]

\* (V_i / max(V_1..V_i) - 1) x 100 in 1e-2 percent
DrawdownAt(values, i) ==
  LET peak == CHOOSE m \in {values[j] : j \in 1..i} :
                \A j \in 1..i : values[j] <= m
  IN (values[i] * 10000) \div peak - 10000

NonDecreasing(values) == \A i \in 1..(Len(values) - 1) : values[i] <= values[i + 1]

\* C21: max_drawdown is the minimum over i of (V_i / max(V_1..V_i) - 1) x 100;
\* it is never positive, it is 0 exactly when the history never falls, and for
\* [100, 120, 90, 150] it is -25 percent.
C21_MaxDrawdown ==
  (pc = "completed" /\ portfolio_value # <<>>) =>
    LET values == ValuesOf(portfolio_value)
    IN /\ \A i \in 1..Len(values) : metrics.max_drawdown <= DrawdownAt(values, i)
       /\ \E i \in 1..Len(values) : metrics.max_drawdown = DrawdownAt(values, i)
       /\ metrics.max_drawdown <= 0
       /\ metrics.max_drawdown = 0 <=> NonDecreasing(values)
       /\ values = <<100, 120, 90, 150>> => metrics.max_drawdown = -2500

\* the metrics of the history [100, 120, 90, 150]
C21_Witness ==
  /\ pc = "completed"
  /\ ValuesOf(portfolio_value) = <<100, 120, 90, 150>>
  /\ metrics.max_drawdown = -2500

(***************************************************************************)
(* More properties of execute, checked under SpecOption                    *)
(***************************************************************************)

\* C22: for a row that passes the eligibility filter execute does not raise: it
\* emits a signal or skips the row; a theoretical price that is NaN or zero
\* produces no crash, and a NaN price produces no signal.
C22_PricingNeverRaises ==
  (opt_out.called /\ opt_out.eligible = "true") =>
    /\ ~opt_out.raised
    /\ IsNaN(opt_out.theoretical_price) => opt_out.signals = <<>>


(***************************************************************************)
(* Properties of repeated runs, checked under SpecRerun                    *)
(***************************************************************************)

\* a second run_backtest call on the engine has returned or raised
SecondRunOver == earlier # NoEarlier /\ pc \in {"completed", "failed"}

\* the run used the C++ strategy, whose code is outside the Python sources
NativeRun == use_cpp_bindings /\ last_call.strategy = "BlackScholesArbitrage"

C24_CacheUntouchedByEngine ==
  [][/\ historical_volatility' = historical_volatility
     /\ run_strategy' = "python" =>
          \A i \in 1..Len(trades') :
            \E k \in 1..Len(run_data') :
              /\ run_data'[k].date = trades'[i].date
              /\ trades'[i].target_price = PriceAt(run_data'[k], DefaultVolatility)]_vars

\* a completed two-day run of the strategy object that logged a trade
C24_Witness ==
  /\ pc = "completed"
  /\ run_strategy = "python"
  /\ Len(portfolio_value) = 2
  /\ trades # <<>>
  /\ historical_volatility = EmptyCache

(***************************************************************************)
(* More properties of the strategy, checked under SpecOption and SpecConfig *)
(***************************************************************************)

\* the sample standard deviation of the log returns (sum of squared deviations
\* over the number of returns minus one) times sqrt(252), in basis points; not
\* a number for a single return
SampleVol(prices) ==
  LET returns == LogReturns(prices)
      n    == Len(returns)
      mean == SumSeq(returns) \div n
      sq   == [i \in 1..n |-> ((returns[i] - mean) \div 10) * ((returns[i] - mean) \div 10)]
  IN IF \E i \in 1..Len(prices) : IsNaN(prices[i]) THEN NaN
     ELSE IF n < 2 THEN NaN
     ELSE (Isqrt(SumSeq(sq) \div (n - 1)) * 158745) \div 100000

\* C25: a cached estimate is the sample standard deviation of the log returns of
\* the prices seen, times sqrt(252); one made from two different prices is not 0.
C25_SampleDeviation ==
  /\ historical_volatility["XYZ"] \in
       {Absent} \cup {SampleVol(prices) : prices \in PriceHistories}
  /\ historical_volatility["XYZ"] # 0

\* C26: initialize() does not accept a configuration whose max_volatility is
\* not greater than its min_volatility.
C26_VolatilityWindowOrdered ==
  init_result = "true" =>
    strategy_config.max_volatility > strategy_config.min_volatility


(***************************************************************************)
(* Loading, and more properties of runs                                    *)
(***************************************************************************)

\* C27: a file that cannot be read does not make load_csv raise; load_data
\* ends with its own 'Failed to load data' error or with none.
C27_LoadReportsItsOwnError ==
  (pc = "idle" /\ last_error # "none") =>
    last_error \in {"no data path", "failed to load"}

\* a run of the Python path that has reached the day loop
FallbackRun == ~use_cpp_bindings /\ run_strategy = "python" /\ InDayLoop

\* on the fallback path the portfolio stays as it was made and every value
\* recorded is initial_capital
ValueStaysInitial ==
  FallbackRun =>
    /\ portfolio = _initialize_portfolio(FALSE)
    /\ \A i \in 1..Len(portfolio_value) : portfolio_value[i].value = initial_capital

DatesOf(entries) == {entries[i].date : i \in 1..Len(entries)}

\* the dates of the run's window that the day loop has been through
ProcessedDates == DatesOf(run_data) \ {run_dates[i] : i \in 1..Len(run_dates)}

OneDateRun == InDayLoop /\ Cardinality(DatesOf(run_data)) = 1

\* C30: a run whose window holds exactly one trading date fails only if the
\* strategy raises; completed, it has a history of one entry, total_return = 0,
\* max_drawdown = 0 and sharpe_ratio = 0, and its avg_daily_return and
\* volatility are not numbers.
C30_OneDateRun ==
  /\ (OneDateRun /\ pc = "failed") =>
       (execute_log # <<>> /\ execute_log[Len(execute_log)].raised)
  /\ (OneDateRun /\ pc = "completed") =>
       /\ Len(portfolio_value) = 1
       /\ metrics.total_return = 0
       /\ metrics.max_drawdown = 0
       /\ metrics.sharpe_ratio = 0
       /\ metrics.avg_daily_return = NaN
       /\ metrics.volatility = NaN

\* a completed run over the second date alone, with a trade logged
C30_Witness ==
  /\ OneDateRun
  /\ pc = "completed"
  /\ portfolio_value[1].date = 2
  /\ trades # <<>>
  /\ metrics.sharpe_ratio = 0
  /\ metrics.volatility = NaN

=============================================================================
